---- MODULE Spec2Model ----
(***************************************************************************)
(* A model of SLiVER (labs-lang/sliver): the command line driver with its  *)
(* backend adapters, the SMT concretizer and the value analysis.           *)
(* Each subsystem has its own specification (SpecDriver, SpecConc, SpecVA) *)
(* over the same variables; a specification leaves the variables of the    *)
(* other subsystems unchanged.                                             *)
(***************************************************************************)
EXTENDS Integers, Sequences, FiniteSets, TLC

VARIABLES
    \* ---- driver: sliver/app/main.py and sliver/backends/*.py ----
    pc,             \* position of main(): start, gather, translate, verify,
                    \* simulate, simloop, finally, exited
    backend_arg,    \* cli[Args.BACKEND]
    simulate,       \* cli[Args.SIMULATE], number of requested traces
    show,           \* cli[Args.SHOW]
    translate_cex,  \* cli[Args.TRANSLATE_CEX] given
    keep_files,     \* cli[Args.KEEP_FILES]
    steps,          \* cli[Args.STEPS]
    no_properties,  \* cli[Args.NO_PROPERTIES]
    concretization, \* cli[Args.CONCRETIZATION]
    timeout,        \* cli[Args.TIMEOUT]: "off", or "on" / "missing" when the
                    \* option is set and the timeout program is / is not found
    installed,      \* the backend's external tools are on the PATH
    produced,       \* generate_code wrote the program file
    status,         \* main's local `status` ("None" or a member of ExitStatus)
    exc,            \* exception in flight when main reaches `finally`
    exitcode,       \* exit code of the process, -1 while running
    temp_files,     \* Backend.temp_files
    disk,           \* files that exist in the file system
    cleanups,       \* number of calls of backend.cleanup
    ret,            \* what the backend's verify command returned: its exit
                    \* code and what its output contained ("none" before)
    sim_i,          \* loop index of Backend.simulate
    sim_xfail,      \* iterations whose trace translation raised
    sim_fault       \* a fault other than a trace translation occurred

dvars == <<pc, backend_arg, simulate, show, translate_cex, keep_files, steps,
           no_properties, concretization, timeout, installed, produced,
           status, exc, exitcode, temp_files, disk, cleanups, ret, sim_i, sim_xfail,
           sim_fault>>

(***************************************************************************)
(* Bounds of the driver model.                                             *)
(***************************************************************************)
MaxTraces == 2

(***************************************************************************)
(* sliver/app/cli.py: ExitStatus.                                          *)
(***************************************************************************)
ExitStatus ==
    [SUCCESS |-> 0, BACKEND_ERROR |-> 1, INVALID_ARGS |-> 2,
     INCONCLUSIVE |-> 5, PARSING_ERROR |-> 6, FAILED |-> 10,
     TIMEOUT |-> 124, NOT_FOUND |-> 127, KILLED |-> 130]

StatusNames == DOMAIN ExitStatus

\* sliver/backends/backends.py
ALL_BACKENDS ==
    {"cbmc", "cseq", "esbmc", "cadp", "nuxmv", "cadp-monitor", "cadp-comp"}

CadpFamily == {"cadp", "cadp-monitor", "cadp-comp"}

\* Exit codes an external backend process may return.
RetCodes == {0, 1, 2, 6, 10, 124}

\* What the driver looks for in the output of a backend that exited with 0.
OutKinds == {"plain", "unknown", "false"}

\* File names.  fname is the program file written by generate_code.
fname == <<"prog", 0>>
F(kind, i) == <<kind, i>>

\* No backend command has been handled by verify yet.
NotRun == [rc |-> -1, out |-> "none"]

InitDriver ==
    /\ pc = "start"
    /\ backend_arg \in ALL_BACKENDS
    /\ simulate \in 0..MaxTraces
    /\ show \in BOOLEAN
    /\ translate_cex \in BOOLEAN
    /\ keep_files \in BOOLEAN
    /\ steps \in 0..1
    /\ no_properties \in BOOLEAN
    /\ concretization \in {"src", "sat", "none"}
    /\ timeout \in {"off", "on", "missing"}
    /\ installed \in BOOLEAN
    /\ produced = FALSE
    /\ status = "None"
    /\ exc = "none"
    /\ exitcode = -1
    /\ temp_files = {}
    /\ disk = {}
    /\ cleanups = 0
    /\ ret = NotRun
    /\ sim_i = 0
    /\ sim_xfail = {}
    /\ sim_fault = FALSE

\* Backend.check_cli with the overrides of Cbmc and Cseq: the status of the
\* SliverError it raises, "ok" when it returns.
check_cli ==
    IF simulate = 0 /\ no_properties THEN "SUCCESS"
    ELSE IF simulate > 0 /\ steps = 0 THEN "INVALID_ARGS"
    ELSE IF backend_arg \in {"cbmc", "cseq"} /\ steps = 0 /\ ~show
         THEN "INVALID_ARGS"
    ELSE "ok"

\* main, first try block (lines 67-77): check_cli, generate_code, the early
\* exit of --show.  enc is the outcome of the encoder and of preprocess:
\* "ok", the status of a SliverError, or "crash" for any other exception.
Main_Encode ==
    /\ pc = "start"
    /\ \E enc \in {"ok", "PARSING_ERROR", "INVALID_ARGS", "BACKEND_ERROR",
                   "SUCCESS", "crash"} :
        LET cli == check_cli
            encodes == ~translate_cex \/ show
            err == IF cli # "ok" THEN cli
                   ELSE IF encodes /\ enc \in StatusNames THEN enc
                   ELSE "ok"
            crashed == cli = "ok" /\ encodes /\ enc = "crash"
            written == err = "ok" /\ ~crashed /\ encodes /\ ~show
        IN  \* preprocess of Esbmc and CadpCompositional calls get_info and
            \* check_info, CadpCompositional also needs the fixpoint
            /\ (enc \in {"BACKEND_ERROR", "SUCCESS"})
                    => backend_arg \in {"esbmc", "cadp-comp"}
            /\ (enc = "SUCCESS") => simulate = 0
            /\ produced' = written
            /\ temp_files' = IF written THEN {fname} ELSE {}
            /\ disk' = IF written THEN {fname} ELSE {}
            /\ IF err # "ok"
               THEN /\ pc' = "exited"
                    /\ exitcode' = ExitStatus[err]
               ELSE IF crashed
               THEN /\ pc' = "exited"
                    /\ exitcode' = 1
               ELSE IF show
               THEN /\ pc' = "exited"
                    /\ exitcode' = ExitStatus["SUCCESS"]
               ELSE /\ pc' = "gather"
                    /\ UNCHANGED exitcode
    /\ UNCHANGED <<status, backend_arg, simulate, show, translate_cex, keep_files,
                   steps, no_properties, concretization, timeout, installed,
                   exc, cleanups, ret, sim_i, sim_xfail, sim_fault>>

\* The ways a call made inside main's second try block can end.
Return(s) == [kind |-> "return", status |-> s]
Raise(s) == [kind |-> "SliverError", status |-> s]
Crash == [kind |-> "Exception", status |-> "None"]
Interrupted == [kind |-> "KeyboardInterrupt", status |-> "None"]

\* main, lines 101-105: what the except clauses make of an outcome.  A
\* returned or raised status is stored, a keyboard interrupt becomes KILLED,
\* any other exception stays in flight.
Caught(o) ==
    [status |-> IF o.kind = "KeyboardInterrupt" THEN "KILLED" ELSE o.status,
     exc |-> IF o.kind = "Exception" THEN "Exception" ELSE "none"]

\* main, lines 81-83: get_info and check_info.  Esbmc and CadpCompositional
\* have gathered and checked the info in preprocess already.
Main_GetInfo ==
    /\ pc = "gather"
    /\ \E o \in {Return("ok"), Raise("PARSING_ERROR"), Raise("INVALID_ARGS"),
                Raise("SUCCESS"), Raise("BACKEND_ERROR"), Crash, Interrupted} :
        /\ (o.kind = "SliverError")
                => backend_arg \notin {"esbmc", "cadp-comp"}
        /\ (o \in {Raise("SUCCESS"), Raise("BACKEND_ERROR")}) => simulate = 0
        /\ IF o = Return("ok")
           THEN /\ pc' = IF translate_cex THEN "translate"
                         ELSE IF simulate > 0 THEN "simulate" ELSE "verify"
                /\ UNCHANGED <<status, exc>>
           ELSE /\ pc' = "finally"
                /\ status' = Caught(o).status
                /\ exc' = Caught(o).exc
    /\ UNCHANGED <<backend_arg, simulate, show, translate_cex, keep_files,
                   steps, no_properties, concretization, timeout, installed,
                   produced, exitcode, temp_files, disk, cleanups, ret, sim_i,
                   sim_xfail, sim_fault>>

\* main, lines 87-94: every adapter's translate_cex takes (cex, info), the
\* call passes three arguments, so the branch always ends in an exception
\* (or in the one of open() when the file is missing).
Main_TranslateCex ==
    /\ pc = "translate"
    /\ pc' = "finally"
    /\ exc' = "Exception"
    /\ UNCHANGED <<backend_arg, simulate, show, translate_cex, keep_files,
                   steps, no_properties, concretization, timeout, installed,
                   produced, status, exitcode, temp_files, disk, cleanups,
                   ret, sim_i, sim_xfail, sim_fault>>

\* Backend.handle_success and its overrides (Esbmc, CadpMonitor, Cadp,
\* CadpCompositional, NuXmv): the status returned for output `out`, "None"
\* when nothing is returned, "RAISE" when the trace translation raises.
handle_success(b, out, xl) ==
    CASE b \in {"cbmc", "cseq"} -> "SUCCESS"
      [] b = "esbmc" -> IF out = "unknown" THEN "INCONCLUSIVE" ELSE "SUCCESS"
      [] b \in CadpFamily ->
            IF out = "false" THEN (IF xl THEN "FAILED" ELSE "RAISE")
            ELSE "SUCCESS"
      [] b = "nuxmv" -> IF xl THEN "None" ELSE "RAISE"

\* Backend.handle_error (common.py 262-266).
Backend_handle_error(rc) == IF rc = 124 THEN "TIMEOUT" ELSE "BACKEND_ERROR"

\* A variant of handle_error that follows the common convention for exit
\* code 6 (parse error) in the adapters that single it out.
handle_error_convention(b, rc, xl) ==
    CASE b \in {"cbmc", "esbmc", "cseq"} /\ rc = 6 -> "PARSING_ERROR"
      [] b = "cbmc" /\ rc = 10 -> IF xl THEN "FAILED" ELSE "RAISE"
      [] b = "esbmc" /\ rc = 1 -> IF xl THEN "FAILED" ELSE "RAISE"
      [] b = "cseq" /\ rc \in {1, 10} -> IF xl THEN "FAILED" ELSE "RAISE"
      [] OTHER -> Backend_handle_error(rc)

\* handle_error of each adapter: Cbmc (cbmc.py 469-478), Esbmc (esbmc.py
\* 219-228), Cseq (common.py 328-338), the others inherit Backend's.
handle_error(b, rc, xl) ==
    CASE b = "cbmc" ->
            IF rc = 10 THEN (IF xl THEN "FAILED" ELSE "RAISE")
            ELSE IF rc = 6 THEN "BACKEND_ERROR"
            ELSE Backend_handle_error(rc)
      [] b = "esbmc" ->
            IF rc = 1 THEN (IF xl THEN "FAILED" ELSE "RAISE")
            ELSE IF rc = 6 THEN "BACKEND_ERROR"
            ELSE Backend_handle_error(rc)
      [] b = "cseq" ->
            IF rc \in {1, 10} THEN (IF xl THEN "FAILED" ELSE "RAISE")
            ELSE IF rc = 6 THEN "BACKEND_ERROR"
            ELSE Backend_handle_error(rc)
      [] OTHER -> Backend_handle_error(rc)

\* Backend.verify (common.py 230-247): get_cmdline, the timeout wrapper, the
\* backend command with exit code rc and output out, then handle_success or
\* handle_error.  CadpCompositional.handle_success reads the SVL log first.
Backend_verify(b, rc, out, xl, logok) ==
    IF ~installed /\ b = "esbmc" THEN Raise("BACKEND_ERROR")
    ELSE IF ~installed /\ b \in {"cbmc", "cseq"} THEN Crash
    ELSE IF timeout = "missing" THEN Raise("FAILED")
    ELSE IF ~installed THEN Crash
    ELSE IF rc = 0 /\ b = "cadp-comp" /\ ~logok THEN Crash
    ELSE LET s == IF rc = 0 THEN handle_success(b, out, xl)
                  ELSE handle_error(b, rc, xl)
         IN  IF s = "RAISE" THEN Crash ELSE Return(s)

\* The backend command of Backend.verify was run and its exit code handled.
Ran(b) ==
    installed /\ timeout # "missing"

\* verify of each adapter: Backend.verify, Cadp.verify (cadp.py 147-174) with
\* the outcome `pre` of BCG generation and minimisation, and
\* CadpCompositional.verify (cadp.py 257-294) which reads the SVL log after.
verify(b, pre, rc, out, xl, logok) ==
    CASE b = "cadp" ->
            IF ~installed THEN Crash
            ELSE IF pre # "ok" THEN Return("BACKEND_ERROR")
            ELSE Backend_verify(b, rc, out, xl, logok)
      [] b = "cadp-comp" ->
            LET r == Backend_verify(b, rc, out, xl, logok)
            IN  IF r.kind = "return" /\ ~logok THEN Crash ELSE r
      [] OTHER -> Backend_verify(b, rc, out, xl, logok)

\* The files verify registers in temp_files.
verify_registers(b, pre) ==
    CASE b = "cadp" ->
            {F("mcl", 0)} \cup
            (IF installed /\ pre = "ok"
             THEN {F("bcg", 0), F("min_bcg", 0)} ELSE {})
      [] b = "cadp-comp" ->
            {F("mcl", 0), F("svl", 0), F("svl_log", 0), F("bcg", 0)}
      [] b = "nuxmv" -> {F("src", 0)}
      [] OTHER -> {}

\* The files that verify and the commands it runs leave on the disk.
verify_creates(b, pre, rc, out, logok) ==
    CASE b = "cadp" ->
            {F("mcl", 0)} \cup
            (IF installed /\ pre # "fail_gen" THEN {F("bcg", 0)} ELSE {}) \cup
            (IF installed /\ pre = "ok" THEN {F("min_bcg", 0)} ELSE {}) \cup
            (IF installed /\ pre = "ok" /\ timeout # "missing" /\ rc = 0
                /\ out = "false" THEN {F("evaluator_bcg", 0)} ELSE {})
      [] b = "cadp-comp" ->
            {F("mcl", 0), F("svl", 0)} \cup
            (IF Ran(b) /\ logok THEN {F("svl_log", 0)} ELSE {}) \cup
            (IF Ran(b) /\ rc = 0 THEN {F("bcg", 0)} ELSE {})
      [] b = "cadp-monitor" ->
            IF Ran(b) /\ rc = 0 /\ out = "false"
            THEN {F("evaluator_bcg", 0)} ELSE {}
      [] b = "nuxmv" -> {F("src", 0)}
      [] OTHER -> {}

\* main, line 100: status = backend.verify(fname, info), with what the
\* except clauses do when it raises.
Main_Verify ==
    /\ pc = "verify"
    /\ \E rc \in RetCodes, out \in OutKinds, xl \in BOOLEAN, logok \in BOOLEAN,
          pre \in {"ok", "fail_gen", "fail_min"}, intr \in BOOLEAN :
        LET b == backend_arg
            o == IF intr THEN Interrupted
                 ELSE verify(b, pre, rc, out, xl, logok)
        IN  /\ (out = "unknown") => b = "esbmc"
            /\ (out = "false") => b \in CadpFamily
            /\ (pre # "ok") => b = "cadp"
            /\ ~logok => b = "cadp-comp"
            /\ status' = Caught(o).status
            /\ exc' = Caught(o).exc
            /\ ret' = IF ~intr /\ Ran(b) /\ pre = "ok"
                      THEN [rc |-> rc, out |-> out] ELSE ret
            /\ temp_files' = temp_files \cup verify_registers(b, pre)
            /\ disk' = disk \cup verify_creates(b, pre, rc, out, logok)
            /\ pc' = "finally"
    /\ UNCHANGED <<backend_arg, simulate, show, translate_cex, keep_files,
                   steps, no_properties, concretization, timeout, installed,
                   produced, exitcode, cleanups, sim_i, sim_xfail, sim_fault>>

\* The loop of simulate goes on to its next iteration.
Continue == [kind |-> "continue", status |-> "None"]

\* simulate up to its loop: Backend.simulate (common.py 224-228) for the
\* adapters without simulation, Cbmc.simulate 398-404, CadpMonitor.simulate
\* 58-64 (check_cadp and the timeout wrapper), NuXmv.simulate.
simulate_enter(b) ==
    CASE b \in {"cseq", "esbmc"} -> Return("BACKEND_ERROR")
      [] b \in CadpFamily ->
            IF ~installed THEN Raise("BACKEND_ERROR")
            ELSE IF timeout = "missing" THEN Raise("FAILED")
            ELSE Continue
      [] OTHER -> Continue

Simulate_Start ==
    /\ pc = "simulate"
    /\ LET o == simulate_enter(backend_arg)
       IN  /\ pc' = IF o = Continue THEN "simloop" ELSE "finally"
           /\ status' = IF o = Continue THEN status ELSE Caught(o).status
           /\ sim_fault' = (o # Continue)
    /\ temp_files' = IF backend_arg = "cbmc"
                     THEN temp_files \cup {F("orig", 0)} ELSE temp_files
    /\ disk' = IF backend_arg = "cbmc"
               THEN disk \cup {F("orig", 0)} ELSE disk
    /\ sim_i' = 0
    /\ UNCHANGED <<backend_arg, simulate, show, translate_cex, keep_files,
                   steps, no_properties, concretization, timeout, installed,
                   produced, exc, exitcode, cleanups, ret, sim_xfail>>

\* The trace of an iteration is translated: by Cbmc.simulate when the command
\* exits with a non-zero code (cbmc.py 435-448), by NuXmv.simulate and
\* CadpMonitor.simulate when it exits with 0.
translates(b, rc, conc) ==
    CASE b = "cbmc" ->
            /\ installed
            /\ concretization = "none" \/ conc
            /\ timeout # "missing"
            /\ rc # 0
      [] b = "nuxmv" -> installed /\ rc = 0
      [] OTHER -> rc = 0

\* One iteration of the loop of simulate: Cbmc.simulate (cbmc.py 405-450),
\* NuXmv.simulate (nuxmv.py 81-97), CadpMonitor.simulate (cadp.py 66-79).
\* rc is the exit code of the backend command, xl tells whether the trace
\* translation succeeds, conc whether the concretizer finds a model.
simulate_step(b, rc, xl, conc) ==
    CASE b = "cbmc" ->
            IF ~installed THEN Crash
            ELSE IF concretization # "none" /\ ~conc
                 THEN Raise("BACKEND_ERROR")
            ELSE IF timeout = "missing" THEN Raise("FAILED")
            ELSE Continue
      [] b = "nuxmv" ->
            IF ~installed \/ rc # 0 \/ ~xl THEN Crash ELSE Continue
      [] OTHER ->
            IF rc # 0 THEN Return("BACKEND_ERROR")
            ELSE IF ~xl THEN Crash
            ELSE Continue

\* The temp files an iteration registers (and creates).
simulate_registers(b, i) ==
    CASE b = "cbmc" ->
            IF installed /\ concretization = "sat"
            THEN {F("sleepy", i), F("script", i)} ELSE {}
      [] b = "nuxmv" -> {F("src", i)}
      [] OTHER -> {}

Simulate_Iter ==
    /\ pc = "simloop"
    /\ sim_i < simulate
    /\ \E rc \in RetCodes, xl \in BOOLEAN, conc \in BOOLEAN, intr \in BOOLEAN :
        LET b == backend_arg
            o == IF intr THEN Interrupted ELSE simulate_step(b, rc, xl, conc)
            xfail == ~intr /\ translates(b, rc, conc) /\ ~xl
        IN  /\ sim_xfail' = IF xfail THEN sim_xfail \cup {sim_i} ELSE sim_xfail
            /\ sim_fault' = (sim_fault \/ intr
                             \/ (o # Continue /\ ~xfail))
            /\ temp_files' = temp_files \cup simulate_registers(b, sim_i)
            /\ disk' = disk \cup simulate_registers(b, sim_i)
            /\ IF o = Continue
               THEN /\ sim_i' = sim_i + 1
                    /\ UNCHANGED <<pc, status, exc>>
               ELSE /\ pc' = "finally"
                    /\ status' = Caught(o).status
                    /\ exc' = Caught(o).exc
                    /\ UNCHANGED sim_i
    /\ UNCHANGED <<backend_arg, simulate, show, translate_cex, keep_files,
                   steps, no_properties, concretization, timeout, installed,
                   produced, exitcode, cleanups, ret>>

\* The loop of simulate is over: return ExitStatus.SUCCESS.
Simulate_Return ==
    /\ pc = "simloop"
    /\ sim_i = simulate
    /\ status' = "SUCCESS"
    /\ pc' = "finally"
    /\ UNCHANGED <<backend_arg, simulate, show, translate_cex, keep_files,
                   steps, no_properties, concretization, timeout, installed,
                   produced, exc, exitcode, temp_files, disk, cleanups, ret,
                   sim_i, sim_xfail, sim_fault>>

\* cleanup of each adapter: Backend.cleanup (common.py 73-86), Cseq.cleanup,
\* CadpMonitor.cleanup (cadp.py 81-89), Cadp.cleanup, and
\* CadpCompositional.cleanup (cadp.py 306-326), which first runs `svl -sweep`
\* and `svl -clean` unless keep-files is set and catches CalledProcessError
\* only: when svl is not on the PATH the FileNotFoundError of check_output
\* leaves cleanup before super().cleanup is reached.
cleanup(b) ==
    LET tf == IF b \in CadpFamily
              THEN temp_files \cup {F("evaluator_bcg", 0)} ELSE temp_files
    IN  IF b = "cadp-comp" /\ ~keep_files /\ ~installed
        THEN [raised |-> TRUE, temp_files |-> temp_files, disk |-> disk]
        ELSE [raised |-> FALSE, temp_files |-> tf,
              disk |-> IF keep_files THEN disk ELSE disk \ tf]

\* main, lines 106-111: the finally clause.  An exception still in flight
\* (or one raised by cleanup) ends the process with exit code 1.
Main_Finally ==
    /\ pc = "finally"
    /\ LET c == cleanup(backend_arg)
       IN  /\ cleanups' = cleanups + 1
           /\ temp_files' = c.temp_files
           /\ disk' = c.disk
           /\ exc' = IF c.raised THEN "Exception" ELSE exc
           /\ exitcode' = IF c.raised THEN 1
                          ELSE IF status # "None" THEN ExitStatus[status]
                          ELSE IF exc = "Exception" THEN 1
                          ELSE 0
    /\ pc' = "exited"
    /\ UNCHANGED <<backend_arg, simulate, show, translate_cex, keep_files,
                   steps, no_properties, concretization, timeout, installed,
                   produced, status, ret, sim_i, sim_xfail, sim_fault>>

(***************************************************************************)
(* Claims about the driver and the backend adapters.                       *)
(***************************************************************************)

\* verify returned a status for a backend command that ran, and the driver
\* has exited.
VerifyReturned == pc = "exited" /\ ret.rc >= 0 /\ exc = "none"

C9_CleanupOnceAndComplete ==
    (pc = "exited" /\ produced) =>
        /\ cleanups = 1
        /\ ~keep_files => temp_files \cap disk = {}

\* C10 as stated: when the only faults of a simulation are exceptions of
\* the trace translation, all the requested iterations run and simulate
\* ends with its normal status.
C10_TranslationFaultContained ==
    (pc = "exited" /\ sim_xfail # {} /\ ~sim_fault) =>
        /\ sim_i = simulate
        /\ status = "SUCCESS"

(***************************************************************************)
(* The concretizer: sliver/atlas/concretizer.py.                           *)
(*                                                                         *)
(* The solver is modelled by the constraints asserted in it; a constraint  *)
(* is a predicate on models, a model gives a value to every integer the    *)
(* concretizer declares: the interface cell I[tid] of every agent, the     *)
(* environment cell E, sched[step] and the cells pick[name][step][i].      *)
(* The sample systems have one interface attribute and at most one         *)
(* environment variable, no array, no assume clause and only               *)
(* deterministic stigmergy variables.                                      *)
(***************************************************************************)
VARIABLES
    info,           \* Info: spawn, initial values, lstig, picks of the program
    fair,           \* cli[Args.FAIR]
    picks,          \* Concretizer.picks
    softs,          \* Concretizer.softs: the names of the soft Booleans
    past_models,    \* Concretizer.past_models: one blocking clause per model
    s_base,         \* blocking clauses asserted in the solver, outside scopes
    s_scopes,       \* Solver.num_scopes()
    outcome,        \* how the last get_concretization ended
    checks,         \* number of check() calls of the last get_concretization
    nsofts,         \* number of softs when its retraction loop started
    hard_sat,       \* the hard constraints were satisfiable in that call
    n_ok,           \* number of calls that returned a model
    ncalls,         \* number of calls of get_concretization
    prog_sched,     \* schedule written into the program, <<>> when symbolic
    seeded,         \* random.seed(seed) was called in this run
    stray_draws     \* a value was drawn from the generator before that

cvars == <<info, fair, picks, softs, past_models, s_base, s_scopes, outcome,
           checks, nsofts, hard_sat, n_ok, ncalls, prog_sched, seeded,
           stray_draws>>

\* Bounds of the concretizer model.
MaxCalls == 2
MaxSteps == 3
MaxVal == 2

Kind(n, a, b, p) == [name |-> n, start |-> a, stop |-> b, picks |-> p]
PickDecl(n, sz, t) == [name |-> n, size |-> sz, typ |-> t]
System(sp, i, e, l, pk) ==
    [spawn |-> sp, iface |-> i, e |-> e, lstig |-> l, picks |-> pk]
Setup(i, f) == [info |-> i, fair |-> f]

\* The sample of systems and scheduling options the concretizer is run on.
\* spawn lists the agent kinds with their id ranges [start, stop) and the
\* picks each kind uses, iface / e are the initial values of the interface
\* attribute / environment variable ({} when there is none), lstig is
\* len(info.lstig), picks are the pick arrays _scan_picks finds.
Setups ==
    LET A2 == <<Kind("A", 0, 2, {"p"})>>
        A3 == <<Kind("A", 0, 3, {"p"})>>
        AB == <<Kind("A", 0, 2, {"p"}), Kind("B", 2, 3, {})>>
        ABp == <<Kind("A", 0, 1, {"p"}), Kind("B", 1, 3, {"p"})>>
    IN  { Setup(System(A2, {0, 1}, {}, 0, {}), TRUE),
          Setup(System(A2, {0}, {}, 0, {}), FALSE),
          Setup(System(A2, {0}, {}, 1, {}), TRUE),
          Setup(System(A2, {0, 1}, {}, 0, {PickDecl("p", 1, "")}), TRUE),
          Setup(System(A2, {}, {0, 1}, 0, {}), TRUE),
          Setup(System(A2, {0, 1}, {0, 1}, 0, {}), TRUE),
          Setup(System(AB, {0}, {}, 0, {PickDecl("p", 1, "A")}), TRUE),
          Setup(System(ABp, {0}, {}, 0, {PickDecl("p", 1, "B")}), TRUE),
          Setup(System(A3, {0}, {}, 0, {PickDecl("p", 2, "")}), TRUE) }

\* Spawn.num_agents, Spawn.range_of (info.py 206-222)
num_agents(sp) ==
    CHOOSE n \in {sp[k].stop : k \in DOMAIN sp} :
        \A k \in DOMAIN sp : sp[k].stop <= n

range_of(sp, typ) ==
    LET k == CHOOSE j \in DOMAIN sp : sp[j].name = typ
    IN  sp[k].start .. (sp[k].stop - 1)

\* Concretizer.isAnAgent, Concretizer.isOfType
isAnAgent(x, agents) == x >= 0 /\ x < agents

isOfType(sp, x, typ) ==
    LET rng == range_of(sp, typ)
    IN  \E v \in rng : x = v

\* The values an integer of the solver is given in the models considered.
Ids(i) == -1 .. num_agents(i.spawn)
Vals == -1 .. MaxVal

\* Concretizer._init_constraint: the cell takes one of the initial values.
init_constraint(values, attr) == \E v \in values : attr = v

\* Concretizer._setup_initial_state: the initial cells allowed by the
\* declarations (agents are 0-based, sequences 1-based).
initial_states(i) ==
    LET n == num_agents(i.spawn)
        Is == IF i.iface = {} THEN {<<>>} ELSE [1..n -> Vals]
        Es == IF i.e = {} THEN {<<>>} ELSE [1..1 -> Vals]
    IN  {st \in [I : Is, E : Es] :
            /\ \A t \in DOMAIN st.I : init_constraint(i.iface, st.I[t])
            /\ \A t \in DOMAIN st.E : init_constraint(i.e, st.E[t])}

\* A scheduler without the round robin constraint.
setup_scheduler_free(i, f, k, prev, s) ==
    isAnAgent(s, num_agents(i.spawn))

\* Concretizer._setup_scheduler (concretizer.py 248-258), the constraints
\* that mention sched[k]; prev is sched[k - 1] (k is 1-based here).
setup_scheduler(i, f, k, prev, s) ==
    LET agents == num_agents(i.spawn)
    IN  /\ isAnAgent(s, agents)
        /\ (f /\ i.lstig = 0) =>
                IF k = 1 THEN s = 0
                ELSE s = (prev + 1) % agents

\* can_pick of add_pick: the type test of the first kind whose picks hold
\* the name.
can_pick(sp, tid, name) ==
    LET ks == {k \in DOMAIN sp : name \in sp[k].picks}
        first == CHOOSE k \in ks : \A j \in ks : k <= j
    IN  ks # {} /\ isOfType(sp, tid, sp[first].name)

\* Concretizer.add_pick (concretizer.py 260-299): the constraint of one step
\* on the cells of pick p, s being sched[step].
add_pick(i, p, s, cells) ==
    IF can_pick(i.spawn, s, p.name)
    THEN /\ \A c \in DOMAIN cells :
                IF p.typ # "" THEN isOfType(i.spawn, cells[c], p.typ)
                ELSE isAnAgent(cells[c], num_agents(i.spawn))
         /\ \A a, b \in DOMAIN cells : a < b => cells[a] # cells[b]
         /\ \A c \in DOMAIN cells : cells[c] # s
    ELSE \A c \in DOMAIN cells : cells[c] = 0

\* The values of sched[step] and of the pick cells of one step that satisfy
\* the pick constraints.
step_choices(i) ==
    LET names == {p.name : p \in i.picks}
        rows == UNION {[1..p.size -> Ids(i)] : p \in i.picks}
    IN  {sc \in [s : Ids(i), pick : [names -> rows]] :
            \A p \in i.picks :
                /\ DOMAIN sc.pick[p.name] = 1..p.size
                /\ add_pick(i, p, sc.s, sc.pick[p.name])}

\* The schedules and pick cells of st steps that satisfy the scheduler and
\* pick constraints.
RECURSIVE runs(_, _, _)
runs(i, f, st) ==
    IF st = 0 THEN {<<>>}
    ELSE LET sc == step_choices(i)
         IN  UNION {{Append(r, x) :
                        x \in {y \in sc :
                                setup_scheduler(i, f, st,
                                    IF st = 1 THEN 0 ELSE r[st - 1].s,
                                    y.s)}} :
                    r \in runs(i, f, st - 1)}

\* The models of the hard constraints other than the blocking clauses:
\* declarations, scheduler, picks.
hard_models(i, f, st) ==
    LET names == {p.name : p \in i.picks}
    IN  {[I |-> ini.I, E |-> ini.E,
          sched |-> [k \in 1..st |-> r[k].s],
          pick |-> [n \in names |-> [k \in 1..st |-> r[k].pick[n]]]] :
            ini \in initial_states(i), r \in runs(i, f, st)}

\* The blocking clause of model b (concretizer.py 435-442), Or(const != value)
\* over the constants that are not soft Booleans, holds of model m.
blocks(b, m) ==
    \/ \E t \in DOMAIN m.I : m.I[t] # b.I[t]
    \/ \E t \in DOMAIN m.E : m.E[t] # b.E[t]
    \/ \E k \in DOMAIN m.sched : m.sched[k] # b.sched[k]
    \/ \E n \in DOMAIN m.pick : \E k \in DOMAIN m.pick[n] :
            \E c \in DOMAIN m.pick[n][k] : m.pick[n][k][c] # b.pick[n][k][c]

\* A soft constraint: the name of its Boolean, the cell it constrains and
\* the values it requires the cell to equal (one per Implies added under
\* that name).
Soft(n, c, req) == [name |-> n, cell |-> c, req |-> req]
Cell(st, n, a, b) == [store |-> st, name |-> n, a |-> a, b |-> b]

holds(m, sf) ==
    LET v == IF sf.cell.store = "I" THEN m.I[sf.cell.a]
             ELSE m.pick[sf.cell.name][sf.cell.a][sf.cell.b]
    IN  \A x \in sf.req : v = x

\* The candidates of a pick's soft constraints (concretizer.py 176-183).
\* choices.remove(self.sched[step]) compares integers with a solver
\* expression, finds none equal and raises the ValueError that is ignored:
\* every id of the type stays in the list.
choices(i, p) ==
    IF p.typ # "" THEN range_of(i.spawn, p.typ)
    ELSE 0 .. (num_agents(i.spawn) - 1)

\* The values popped from the shuffled candidates for one step: size * size
\* pops (concretizer.py 184-189), all different.
pops(i, p) ==
    {f \in [1..(p.size * p.size) -> choices(i, p)] :
        \A a, b \in DOMAIN f : a < b => f[a] # f[b]}

\* The exception _add_soft_constraints ends with, "none" when it returns:
\* line 169 reads `attr`, which is unbound when no agent has an interface
\* attribute; line 189 pops from an empty list when a pick has fewer
\* candidates than size * size.  pk is Concretizer.picks.
soft_error(i, pk) ==
    IF Cardinality(i.e) > 1 /\ i.iface = {} THEN "UnboundLocalError"
    ELSE IF \E p \in pk : p.size * p.size > Cardinality(choices(i, p))
         THEN "IndexError"
    ELSE "none"

\* The names in Concretizer.softs when _add_soft_constraints raises.
softs_at_error(i, pk) ==
    LET n == num_agents(i.spawn)
        ifc == IF Cardinality(i.iface) > 1
               THEN {<<"i", t - 1, 0>> : t \in 1..n} ELSE {}
        env == IF Cardinality(i.e) > 1 THEN {<<"e", 0, 0>>} ELSE {}
        pck == {<<"pick", 0, c - 1>> : c \in
                    UNION {1..p.size : p \in
                        {q \in pk : q.size * q.size
                                        > Cardinality(choices(i, q))}}}
    IN  IF soft_error(i, pk) = "UnboundLocalError" THEN ifc \cup env
        ELSE ifc \cup env \cup pck

\* The random draws of _add_soft_constraints: rnd_value of every interface
\* cell, of the environment variable, and the pops of every pick and step.
iface_draws(i) == [1..num_agents(i.spawn) -> i.iface]
env_draws(i) == IF i.e = {} THEN {0} ELSE i.e
pick_draws(i, pk, st) ==
    {f \in [pk \X (1..st) -> UNION {pops(i, p) : p \in pk}] :
        \A p \in pk, k \in 1..st : f[<<p, k>>] \in pops(i, p)}

\* Concretizer._add_soft_constraints (concretizer.py 148-189) for given
\* draws.  The soft constraint of the environment variable constrains
\* `attr`, the last interface cell of the loop above it.
add_soft_constraints(i, pk, st, r, re, rp) ==
    LET n == num_agents(i.spawn)
        ifc == IF Cardinality(i.iface) > 1
               THEN {Soft(<<"i", t - 1, 0>>, Cell("I", "", t, 0), {r[t]}) :
                        t \in 1..n}
               ELSE {}
        env == IF Cardinality(i.e) > 1
               THEN {Soft(<<"e", 0, 0>>, Cell("I", "", n, 0), {re})}
               ELSE {}
        pck == {Soft(<<"pick", x[2] - 1, x[3] - 1>>,
                     Cell("pick", x[1].name, x[2], x[3]),
                     {rp[<<x[1], x[2]>>][(o - 1) * x[1].size + x[3]] :
                        o \in 1..x[1].size}) :
                    x \in {y \in pk \X (1..st) \X (1..MaxVal + 1) :
                                y[3] <= y[1].size}}
    IN  ifc \cup env \cup pck

\* _add_soft_constraints draws from the generator of the random module:
\* rnd_value is random.choice (info.py 285-289), called for every interface
\* cell with more than one initial value and, once `attr` is bound, for
\* such an environment variable; random.shuffle is called for every pick
\* of Concretizer.picks at every step.
draws_in_add_soft_constraints(i, pk, st) ==
    \/ Cardinality(i.iface) > 1
    \/ Cardinality(i.e) > 1 /\ i.iface # {}
    \/ \E p \in pk : p.size >= 1 /\ st >= 1

\* A _reset_soft_constraints that does not assert the past models again.
reset_without_past_models(base, past) == base

\* Concretizer._reset_soft_constraints (concretizer.py 191-197): every scope
\* is popped, which leaves the assertions made outside scopes, and the
\* blocking clauses of past_models are asserted.
reset_soft_constraints(base, past) == base \cup past

\* The names of the softs after _add_soft_constraints returned.
soft_names(i, pk, st) ==
    LET n == num_agents(i.spawn)
        ifc == IF Cardinality(i.iface) > 1
               THEN {<<"i", t - 1, 0>> : t \in 1..n} ELSE {}
        env == IF Cardinality(i.e) > 1 THEN {<<"e", 0, 0>>} ELSE {}
        pck == {<<"pick", x[2] - 1, x[3] - 1>> :
                    x \in {y \in pk \X (1..st) \X (1..MaxVal + 1) :
                                y[3] <= y[1].size}}
    IN  ifc \cup env \cup pck

\* The retraction loop of get_concretization (concretizer.py 419-432) can
\* end after c checks with model m.  The shuffled list of softs is popped
\* from its tail until check() is sat: the softs kept are a satisfiable set
\* K that is either the whole list or becomes unsatisfiable with one more
\* soft (the one popped last), and every such K is kept under some order.
retracts_to(i, pk, st, hard, m, c) ==
    \E r \in iface_draws(i), re \in env_draws(i),
       rp \in pick_draws(i, pk, st) :
        LET all == add_soft_constraints(i, pk, st, r, re, rp)
            Sat(X) == \E h \in hard : \A sf \in X : holds(h, sf)
        IN  \E K \in SUBSET {sf \in all : holds(m, sf)} :
                /\ Cardinality(all) - Cardinality(K) + 1 = c
                /\ \/ K = all
                   \/ \E x \in all \ K : ~Sat(K \cup {x})

\* Concretizer.get_concretization (concretizer.py 408-449) with
\* randomize = True, as every caller constructs it.  src tells that the
\* caller writes the schedule of the model into the program
\* (concretize_program, lines 346-356).
get_concretization(src) ==
    /\ ncalls < MaxCalls
    /\ ncalls' = ncalls + 1
    /\ LET base == reset_soft_constraints(s_base, past_models)
           err == soft_error(info, picks)
           hard == {m \in hard_models(info, fair, steps) :
                        \A b \in base : blocks(b, m)}
           names == soft_names(info, picks, steps)
       IN  /\ s_base' = base
           /\ s_scopes' = 1
           /\ hard_sat' = (hard # {})
           /\ stray_draws' =
                (stray_draws
                    \/ (~seeded
                        /\ draws_in_add_soft_constraints(info, picks, steps)))
           /\ seeded' = (seeded \/ err = "none")
           /\ IF err # "none"
              THEN /\ outcome' = err
                   /\ softs' = softs_at_error(info, picks)
                   /\ nsofts' = Cardinality(softs_at_error(info, picks))
                   /\ checks' = 0
                   /\ UNCHANGED <<picks, past_models, n_ok, prog_sched>>
              ELSE /\ softs' = names
                   /\ nsofts' = Cardinality(names)
                   /\ picks' = info.picks
                   /\ IF hard = {}
                      THEN /\ outcome' = "failure"
                           /\ checks' = Cardinality(names) + 1
                           /\ UNCHANGED <<past_models, n_ok, prog_sched>>
                      ELSE \E x \in
                                {y \in hard \X (1..(Cardinality(names) + 1)) :
                                    retracts_to(info, picks, steps, hard,
                                                y[1], y[2])} :
                            /\ outcome' = "model"
                            /\ checks' = x[2]
                            /\ past_models' = past_models \cup {x[1]}
                            /\ n_ok' = n_ok + 1
                            /\ prog_sched' = IF src THEN x[1].sched
                                             ELSE prog_sched

\* Concretizer.concretize_program (concretizer.py 308-361).
concretize_program ==
    /\ pc = "concretizer"
    /\ IF concretization = "src"
       THEN get_concretization(TRUE)
       ELSE /\ prog_sched' =
                IF concretization = "sat" /\ fair /\ info.lstig = 0
                THEN [k \in 1..steps |->
                        (k - 1) % num_agents(info.spawn)]
                ELSE prog_sched
            /\ UNCHANGED <<picks, softs, past_models, s_base, s_scopes,
                           outcome, checks, nsofts, hard_sat, n_ok, ncalls,
                           seeded, stray_draws>>
    /\ UNCHANGED <<info, fair>>

\* Cbmc.sat_level_concretization (cbmc.py 349-352): the model that seeds
\* the weak assumptions of the SAT solver.
sat_level_concretization ==
    /\ pc = "concretizer"
    /\ concretization = "sat"
    /\ get_concretization(FALSE)
    /\ UNCHANGED <<info, fair>>

(***************************************************************************)
(* Claims about the concretizer.                                           *)
(***************************************************************************)

\* C4: the models returned by successive successful calls are pairwise
\* different in a non-soft variable, and every blocking clause but the one
\* appended after the last check() is asserted outside the scopes of the
\* solver, where a pop never removes it.
C4_ModelsDiffer ==
    /\ Cardinality(past_models) = n_ok
    /\ \A a, b \in past_models : a # b => blocks(a, b)
    /\ s_base \subseteq past_models
    /\ Cardinality(past_models \ s_base) <= 1

\* C4 witness: a second model was returned after a soft constraint had to
\* be retracted.
C4_Witness ==
    /\ n_ok = 2
    /\ Cardinality(past_models) = 2
    /\ outcome = "model"
    /\ checks > 1

\* C5 as stated: a call makes at most |softs| + 1 checks, fails exactly
\* when the hard constraints are unsatisfiable, and returns a model of the
\* hard constraints whenever they are satisfiable.
C5_SoftsNeverFail ==
    (outcome # "none") =>
        /\ checks <= nsofts + 1
        /\ (outcome = "failure") <=> ~hard_sat
        /\ hard_sat =>
            /\ outcome = "model"
            /\ past_models \subseteq hard_models(info, fair, steps)

\* C19 as stated: once a call has returned a model, every further call on
\* the same Concretizer ends with a model or with the concretization
\* failure, also for programs with picks; no other error is reachable.
C19_FurtherCalls ==
    n_ok >= 1 => outcome \in {"model", "failure"}

\* C26 as stated: every rnd_value draw and every shuffle of a run happens
\* after the generator has been seeded with the seed of the run.
C26_DrawsSeeded ==
    ~stray_draws

\* Spawn.__getitem__: the kind of agent tid.
kind_of(sp, tid) ==
    sp[CHOOSE k \in DOMAIN sp : sp[k].start <= tid /\ tid < sp[k].stop]

\* C6 as stated: in every returned model and at every step the cells of a
\* pick are 0 when the kind of the scheduled agent does not use the pick,
\* and otherwise ids of the declared type (any agent id when untyped),
\* pairwise distinct and different from sched[step].
C6_PickCells ==
    \A m \in past_models : \A p \in info.picks : \A k \in 1..steps :
        LET cells == m.pick[p.name][k]
            s == m.sched[k]
        IN  IF p.name \notin kind_of(info.spawn, s).picks
            THEN \A c \in DOMAIN cells : cells[c] = 0
            ELSE /\ \A c \in DOMAIN cells :
                        IF p.typ # ""
                        THEN cells[c] \in range_of(info.spawn, p.typ)
                        ELSE cells[c] \in 0..(num_agents(info.spawn) - 1)
                 /\ \A a, b \in DOMAIN cells : a # b => cells[a] # cells[b]
                 /\ \A c \in DOMAIN cells : cells[c] # s

\* C7: with fair scheduling and no stigmergy variable, sched[i] = i mod N
\* in every returned model and in the schedule written into the program.
C7_RoundRobin ==
    (fair /\ info.lstig = 0) =>
        LET N == num_agents(info.spawn)
        IN  /\ \A m \in past_models : \A k \in 1..steps :
                    m.sched[k] = (k - 1) % N
            /\ prog_sched # <<>> =>
                /\ Len(prog_sched) = steps
                /\ \A k \in 1..steps : prog_sched[k] = (k - 1) % N

\* C7 witness: a fair run longer than the number of agents, whose schedule
\* was written by the SAT-level path and for which a model was returned.
C7_Witness ==
    /\ fair
    /\ info.lstig = 0
    /\ steps > num_agents(info.spawn)
    /\ concretization = "sat"
    /\ prog_sched # <<>>
    /\ \E m \in past_models : m.sched[steps] = 0

(***************************************************************************)
(* Value analysis (analysis/domains.py, analysis/value_analysis.py) and    *)
(* the adapters that use its results.                                      *)
(***************************************************************************)
VARIABLES prog, va_pc, va_err, ranges, fix, wont_change, s_analysis,
          assumes, conc, visited

vavars == <<prog, va_pc, va_err, ranges, fix, wont_change, s_analysis,
            assumes, conc, visited>>

\* loop(20, guard_map, s0): the bound of the first pass.
LoopBound == 20

\* The largest value a cell takes in the executions explored.
MaxInt == 22

Min2(a, b) == IF a <= b THEN a ELSE b
Max2(a, b) == IF a >= b THEN a ELSE b

\* --- Interval (domains.py 212-338): the pair <<min, max>>.
I(mn, mx) == <<mn, mx>>

Interval_contains(n, a) == a[1] <= n /\ n <= a[2]

Interval_is_within(a, b) == a[1] >= b[1] /\ a[2] <= b[2]

Interval_overlaps(a, b) ==
    \/ Interval_is_within(a, b)
    \/ Interval_is_within(b, a)
    \/ (b[1] <= a[1] /\ a[1] <= b[2])
    \/ (b[1] <= a[2] /\ a[2] <= b[2])

Interval_adjacent(a, b) ==
    /\ ~Interval_overlaps(a, b)
    /\ (a[2] = b[1] - 1 \/ a[1] = b[2] + 1)

Interval_join(a, b) == I(Min2(a[1], b[1]), Max2(a[2], b[2]))

Interval_equality(a, b) ==
    IF a[1] > b[2] \/ a[2] < b[1] THEN I(0, 0)
    ELSE IF a[1] = a[2] /\ a[2] = b[1] /\ b[1] = b[2] THEN I(1, 1)
    ELSE I(0, 1)

Interval_add(a, b) == I(a[1] + b[1], a[2] + b[2])

Interval_neg(a) == I(-a[2], -a[1])

Interval_invert(a) ==
    IF Interval_contains(1, a) /\ ~Interval_contains(0, a) THEN I(0, 0)
    ELSE IF Interval_contains(0, a) /\ ~Interval_contains(1, a) THEN I(1, 1)
    ELSE I(0, 1)

Interval_sub(a, b) == Interval_add(a, Interval_neg(b))

\* Python's num % mod, for mod # 0: the result has the sign of mod.
py_mod(num, mod) == IF mod > 0 THEN num % mod ELSE -((-num) % (-mod))

\* The least and the greatest element of a non-empty set of integers.
min_of(values) == CHOOSE v \in values : \A w \in values : v <= w
max_of(values) == CHOOSE v \in values : \A w \in values : v >= w

\* Interval.__mod__, when neither end of b is 0 (ZeroDivisionError
\* otherwise: `other != 0` is an Interval, which is true).
Interval_mod(a, b) ==
    LET values == {py_mod(num, mod) : num \in a[1]..a[2], mod \in {b[1], b[2]}}
    IN  I(min_of(values), max_of(values))

Interval_mul(a, b) ==
    LET values == {a[1] * b[1], a[1] * b[2], a[2] * b[1], a[2] * b[2]}
    IN  I(min_of(values), max_of(values))

Interval_abs(a) ==
    LET amin == IF a[1] < 0 THEN -a[1] ELSE a[1]
        amax == IF a[2] < 0 THEN -a[2] ELSE a[2]
    IN  I(Min2(amin, amax), Max2(amin, amax))

Interval_Min(a, b) == I(Min2(a[1], b[1]), Min2(a[2], b[2]))

Interval_Max(a, b) == I(Max2(a[1], b[1]), Max2(a[2], b[2]))

\* The function _combine is called with, by the name of the caller.
combined(fn, a, b) ==
    CASE fn = "equality" -> Interval_equality(a, b)
      [] fn = "__add__" -> Interval_add(a, b)
      [] fn = "__sub__" -> Interval_sub(a, b)
      [] fn = "__mul__" -> Interval_mul(a, b)
      [] fn = "__mod__" -> Interval_mod(a, b)
      [] fn = "Min" -> Interval_Min(a, b)
      [] fn = "Max" -> Interval_Max(a, b)

\* --- Stripes (domains.py 346-547): a set of intervals.
S(mn, mx) == {I(mn, mx)}

\* Stripes._prune
RECURSIVE prune(_, _)
prune(stripes, prune_adjacent) ==
    LET joins == {Interval_join(x[1], x[2]) :
                    x \in {y \in stripes \X stripes :
                            /\ y[1] # y[2]
                            /\ \/ Interval_overlaps(y[1], y[2])
                               \/ (Interval_adjacent(y[1], y[2])
                                    /\ prune_adjacent)}}
        joined == stripes \cup joins
        subsets == {a \in joined :
                        \E b \in joined : Interval_is_within(a, b) /\ a # b}
    IN  IF joins = {} /\ subsets = {} THEN stripes
        ELSE prune(joined \ subsets, prune_adjacent)

Stripes_abstract(values) == prune({I(v, v) : v \in values}, TRUE)

Stripes_abstract_range(lo, hi) == S(lo, hi)

Stripes_join_adjacent(a) == prune(a, TRUE)

Stripes_contains(n, a) == \E i \in a : Interval_contains(n, i)

Stripes_or(a, b) == prune(a \cup b, FALSE)

\* _combine without _prune.
Stripes_combine_no_prune(a, b, fn) ==
    {combined(fn, x[1], x[2]) : x \in a \X b}

Stripes_combine(a, b, fn) ==
    prune({combined(fn, x[1], x[2]) : x \in a \X b}, FALSE)

Stripes_equality(a, b) == Stripes_combine(a, b, "equality")

Stripes_add(a, b) == Stripes_combine(a, b, "__add__")

Stripes_sub(a, b) == Stripes_combine(a, b, "__sub__")

Stripes_mul(a, b) == Stripes_combine(a, b, "__mul__")

Stripes_mod(a, b) == Stripes_combine(a, b, "__mod__")

Stripes_Min(a, b) == Stripes_combine(a, b, "Min")

Stripes_Max(a, b) == Stripes_combine(a, b, "Max")

Stripes_neg(a) == prune({Interval_neg(x) : x \in a}, FALSE)

Stripes_invert(a) == prune({Interval_invert(x) : x \in a}, FALSE)

Stripes_abs(a) == prune({Interval_abs(x) : x \in a}, FALSE)

\* Stripes.extrema
extrema(a) == <<min_of({i[1] : i \in a}), max_of({i[2] : i \in a})>>

\* The intervals of Stripes.Range before the test for emptiness.
Range_stripes(a, b) ==
    LET other_minus_1 == Stripes_sub(b, S(1, 1))
    IN  {I(x[1], x[2]) :
            x \in {y \in {i[1] : i \in a} \X {i[2] : i \in other_minus_1} :
                    y[2] > y[1]}}

\* Stripes.Range, when the range is not empty (ValueError otherwise).
Stripes_Range(a, b) == prune(Range_stripes(a, b), FALSE)

\* __lt__ without the degenerate cases.
Stripes_lt_by_extrema(a, b) ==
    IF extrema(a)[2] < extrema(b)[1] THEN S(1, 1)
    ELSE IF extrema(a)[1] > extrema(b)[2] THEN S(0, 0)
    ELSE S(0, 1)

\* Stripes.__lt__
Stripes_lt(a, b) ==
    LET my_min == extrema(a)[1]
        my_max == extrema(a)[2]
        other_min == extrema(b)[1]
        other_max == extrema(b)[2]
    IN  IF my_min = my_max
        THEN IF other_min = other_max
             THEN IF my_min < other_min THEN S(1, 1) ELSE S(0, 0)
             ELSE IF my_min >= other_max THEN S(0, 0)
             ELSE IF my_max < other_min THEN S(1, 1)
             ELSE S(0, 1)
        ELSE IF other_min = other_max
        THEN IF my_min >= other_min THEN S(0, 0)
             ELSE IF my_max < other_min THEN S(1, 1)
             ELSE S(0, 1)
        ELSE IF my_max < other_min THEN S(1, 1)
        ELSE IF my_min > other_max THEN S(0, 0)
        ELSE S(0, 1)

Stripes_is_within(a, b) ==
    \/ a = b
    \/ \A x \in a : \E y \in b : Interval_is_within(x, y)

Stripes_And(a, b) ==
    IF Stripes_contains(0, a) \/ Stripes_contains(0, b)
    THEN IF Stripes_contains(1, a) /\ Stripes_contains(1, b)
         THEN S(0, 1) ELSE S(0, 0)
    ELSE S(1, 1)

\* bisect keeping only the greatest integer in the second half.
Stripes_bisect_ends(a) ==
    IF Cardinality(a) > 1
    THEN LET left == {CHOOSE x \in a : \A y \in a : x[1] <= y[1]}
         IN  <<left, a \ left>>
    ELSE LET st == CHOOSE x \in a : TRUE
         IN  IF st[1] # st[2]
             THEN <<S(st[1], (st[1] + st[2]) \div 2), S(st[2], st[2])>>
             ELSE <<>>

\* Stripes.bisect: the pair of halves, <<>> for (None, None).  The list of
\* a frozenset has no specified order; the intervals are taken by
\* increasing minimum.
Stripes_bisect(a) ==
    IF Cardinality(a) > 1
    THEN LET mid == Cardinality(a) \div 2
             left == {x \in a :
                        Cardinality({y \in a : y[1] < x[1]}) < mid}
         IN  <<left, a \ left>>
    ELSE LET st == CHOOSE x \in a : TRUE
             mid == (st[1] + st[2]) \div 2
         IN  IF st[1] # st[2]
             THEN <<S(st[1], mid), S(mid + 1, st[2])>>
             ELSE <<>>

\* --- Sign (domains.py 5-209): the record of the three flags.
Sign(minus, plus, zero) == [minus |-> minus, plus |-> plus, zero |-> zero]

Sign_abstract(values) ==
    Sign(\E x \in values : x < 0, \E x \in values : x > 0,
         \E x \in values : x = 0)

Sign_abstract_range(lo, hi) == Sign(lo < 0, hi > 0, lo * hi <= 0)

Sign_is_zero(a) == a.zero /\ ~a.plus /\ ~a.minus

Sign_or(a, b) ==
    Sign(a.minus \/ b.minus, a.plus \/ b.plus, a.zero \/ b.zero)

Sign_add(a, b) ==
    IF Sign_is_zero(a) THEN b
    ELSE IF Sign_is_zero(b) THEN a
    ELSE Sign(a.minus \/ b.minus, a.plus \/ b.plus,
              (a.plus /\ b.minus) \/ (a.minus /\ b.plus))

Sign_is_within(a, b) ==
    /\ (~a.minus) \/ b.minus
    /\ (~a.plus) \/ b.plus
    /\ (~a.zero) \/ b.zero

\* --- The operations value_analysis uses, by domain.
abstract(d, values) ==
    IF d = "Stripes" THEN Stripes_abstract(values) ELSE Sign_abstract(values)

abstract_range(d, lo, hi) ==
    IF d = "Stripes" THEN Stripes_abstract_range(lo, hi)
    ELSE Sign_abstract_range(lo, hi)

or_(d, a, b) == IF d = "Stripes" THEN Stripes_or(a, b) ELSE Sign_or(a, b)

is_within(d, a, b) ==
    IF d = "Stripes" THEN Stripes_is_within(a, b) ELSE Sign_is_within(a, b)

join_adjacent(d, a) == IF d = "Stripes" THEN Stripes_join_adjacent(a) ELSE a

\* --- The syntax tree of a system (labs_ast nodes).  loc tells assignments
\* at different places apart.
Literal(v) == [type |-> "literal", value |-> v]
Ref(n) == [type |-> "ref", name |-> n]
Expr(op, a, b) == [type |-> "expr", name |-> op, operands |-> <<a, b>>]
Comparison(op, a, b) ==
    [type |-> "comparison", name |-> op, operands |-> <<a, b>>]
Assign(loc, lhs, rhs) ==
    [type |-> "assign", loc |-> loc, lhs |-> lhs, rhs |-> rhs]
Guarded(cond, body) == [type |-> "guarded", cond |-> cond, body |-> body]
Composition(op, operands) ==
    [type |-> "composition", name |-> op, operands |-> operands]
Call(n) == [type |-> "call", name |-> n]

\* A declared variable: its store and the range of its initial values.
Var(store, lo, hi) == [store |-> store, lo |-> lo, hi |-> hi]

\* Behavior = (b1 ++ ... ++ bn); Behavior, with one auxiliary process Q.
Program(agents, decls, branches, q) ==
    [agents |-> agents, decls |-> decls,
     procs |-> [Behavior |-> Composition("seq",
                    <<Composition("choice", branches), Call("Behavior")>>),
                Q |-> q]]

\* Node.walk: the process nodes of a tree.
RECURSIVE walk(_)
walk(node) ==
    {node} \cup
    (CASE node.type = "composition" ->
            UNION {walk(node.operands[k]) : k \in DOMAIN node.operands}
       [] node.type = "guarded" -> walk(node.body)
       [] OTHER -> {})

\* value_analysis, lines 260-286: the nodes reachable from Behavior through
\* calls ("Behavior" and "Skip" are never followed).
reachable_nodes(p) ==
    LET b == walk(p.procs.Behavior)
        calls == {n.name : n \in {x \in b : x.type = "call"}}
                    \ {"Behavior", "Skip"}
    IN  b \cup UNION {walk(p.procs[c]) : c \in calls}

assignments(p) == {n \in reachable_nodes(p) : n.type = "assign"}

guards(p) == {n \in reachable_nodes(p) : n.type = "guarded"}

\* get_guarded_assignments (value_analysis.py 289-311)
RECURSIVE get_guarded_assignments(_, _)
get_guarded_assignments(node, p) ==
    CASE node.type = "composition" ->
            IF node.name = "seq"
            THEN get_guarded_assignments(node.operands[1], p)
            ELSE UNION {get_guarded_assignments(node.operands[k], p) :
                            k \in DOMAIN node.operands}
      [] node.type = "assign" -> {node}
      [] node.type = "guarded" -> get_guarded_assignments(node.body, p)
      [] node.type = "call" ->
            IF node.name = "Skip" THEN {}
            ELSE get_guarded_assignments(p.procs[node.name], p)

\* A set as a tuple, in some order.
RECURSIVE SetToSeq(_)
SetToSeq(X) ==
    IF X = {} THEN <<>>
    ELSE LET x == CHOOSE y \in X : TRUE
         IN  <<x>> \o SetToSeq(X \ {x})

\* make_guard (value_analysis.py 241-248): the conjunction of the
\* conditions and the variables it mentions.
RECURSIVE refs(_)
refs(e) ==
    CASE e.type = "ref" -> {e.name}
      [] e.type = "literal" -> {}
      [] OTHER -> UNION {refs(e.operands[k]) : k \in DOMAIN e.operands}

make_guard(g) ==
    [new_guard |-> [type |-> "expr", name |-> "and", operands |-> g],
     g_vars |-> UNION {refs(g[k]) : k \in DOMAIN g}]

\* guard_map (value_analysis.py 313-320): every assignment that some
\* guarded node leads to, with the conditions of ALL those guarded nodes.
guard_map(p) ==
    LET guarded == UNION {get_guarded_assignments(g.body, p) : g \in guards(p)}
    IN  [x \in guarded |->
            make_guard(SetToSeq(
                {g.cond : g \in {h \in guards(p) :
                    x \in get_guarded_assignments(h.body, p)}}))]

\* make_init (value_analysis.py 34-56), without local variables.
make_init(p, d) ==
    [v \in DOMAIN p.decls \cup {"id"} |->
        IF v = "id" THEN abstract_range(d, 0, p.agents - 1)
        ELSE abstract_range(d, p.decls[v].lo, p.decls[v].hi)]

\* merge (value_analysis.py 14-21)
merge(d, s0, s1) == [k \in DOMAIN s0 |-> or_(d, s0[k], s1[k])]

\* reduce(merge, states) (value_analysis.py 172, 385): folding merge over
\* the states leaves, for every variable, the pruned union of its stripes
\* (the union of its flags on Sign) in whatever order the states are taken.
reduce_merge(d, states) ==
    LET any == CHOOSE y \in states : TRUE
    IN  [k \in DOMAIN any |->
            IF d = "Stripes"
            THEN prune(UNION {st[k] : st \in states}, FALSE)
            ELSE Sign(\E st \in states : st[k].minus,
                      \E st \in states : st[k].plus,
                      \E st \in states : st[k].zero)]

\* eval_expr (value_analysis.py 63-132) for literals, references, sums,
\* equalities and conjunctions.  It is evaluated on Stripes only: on Sign,
\* equality raises before it returns (see recursive_apply).
RECURSIVE eval_expr(_, _, _)
RECURSIVE reduce_ops(_, _, _, _)
reduce_ops(d, name, vals, k) ==
    IF k = 1 THEN vals[1]
    ELSE LET x == reduce_ops(d, name, vals, k - 1)
             y == vals[k]
         IN  CASE name = "+" ->
                    IF d = "Stripes" THEN Stripes_add(x, y) ELSE Sign_add(x, y)
               [] name = "min" -> Stripes_Min(x, y)
               [] name = "and" -> Stripes_And(x, y)
               [] name = "=" -> Stripes_equality(x, y)

eval_expr(d, expr, s) ==
    CASE expr.type = "literal" -> abstract(d, {expr.value})
      [] expr.type = "ref" -> s[expr.name]
      [] OTHER ->
            reduce_ops(d, expr.name,
                       [k \in DOMAIN expr.operands |->
                            eval_expr(d, expr.operands[k], s)],
                       Len(expr.operands))

\* The exception eval_expr ends with, "none" when it returns.  OPS maps
\* "/" to x // y (value_analysis.py 68), and neither Stripes nor Sign
\* defines __floordiv__: the reduce of line 104 raises TypeError once the
\* operands are evaluated.  Every branch of Sign.Min reads Sign.NEG, Sign.NO
\* or Sign.YES, which domains.py never defines.
RECURSIVE eval_raises(_, _)
eval_raises(d, expr) ==
    IF expr.type \in {"literal", "ref"} THEN "none"
    ELSE LET sub == {eval_raises(d, expr.operands[k]) :
                        k \in DOMAIN expr.operands} \ {"none"}
         IN  IF sub # {} THEN CHOOSE e \in sub : TRUE
             ELSE IF expr.name = "/" THEN "TypeError"
             ELSE IF expr.name = "min" /\ d = "Sign" THEN "AttributeError"
             ELSE "none"

\* The outcomes of applying a statement to a state: a state, None, or an
\* exception.
Some(s) == [k |-> "state", s |-> s]
None(s) == [k |-> "None", s |-> s]
Raised(e, s) == [k |-> e, s |-> s]

\* bisect_by for every variable of the guard (value_analysis.py 135-144,
\* 161-162)
bisections(g_vars, s) ==
    UNION {LET b == Stripes_bisect(s[v])
           IN  IF b = <<>> THEN {}
               ELSE {[s EXCEPT ![v] = b[1]], [s EXCEPT ![v] = b[2]]} :
            v \in g_vars}

\* apply_guard.recursive_apply (value_analysis.py 153-174).  On Sign the
\* evaluation of the guard ends in Sign.equality, all of whose branches
\* read Sign.YES, Sign.MAYBE or Sign.NO, which domains.py never defines.
RECURSIVE recursive_apply(_, _, _)
recursive_apply(d, g, s) ==
    IF eval_raises(d, g.new_guard) # "none"
    THEN Raised(eval_raises(d, g.new_guard), s)
    ELSE IF d = "Sign" THEN Raised("AttributeError", s)
    ELSE
    LET eval_whole == eval_expr(d, g.new_guard, s)
    IN  IF Stripes_contains(1, eval_whole) /\ ~Stripes_contains(0, eval_whole)
        THEN Some(s)
        ELSE IF Stripes_contains(0, eval_whole)
                /\ ~Stripes_contains(1, eval_whole)
        THEN None(s)
        ELSE LET bs == bisections(g.g_vars, s)
                 rec == {recursive_apply(d, g, b) : b \in bs}
                 kept == {r.s : r \in {x \in rec : x.k = "state"}}
             IN  IF bs = {} THEN Some(s)
                 ELSE IF \E r \in rec : r.k \notin {"state", "None"}
                 THEN Raised("ValueError", s)
                 ELSE IF kept = {} THEN Raised("ValueError", s)
                 ELSE Some(reduce_merge(d, kept))

\* apply_guard (value_analysis.py 147-176)
apply_guard(d, gm, stmt, s0) ==
    IF stmt \notin DOMAIN gm THEN Some(s0)
    ELSE recursive_apply(d, gm[stmt], s0)

\* apply_assignment (value_analysis.py 187-197)
apply_assignment(d, asgn, s0, gm) ==
    LET g == apply_guard(d, gm, asgn, s0)
    IN  IF g.k # "state" THEN g
        ELSE IF eval_raises(d, asgn.rhs) # "none"
        THEN Raised(eval_raises(d, asgn.rhs), g.s)
        ELSE Some([g.s EXCEPT ![asgn.lhs] = eval_expr(d, asgn.rhs, g.s)])

\* An iteration that stops as soon as one new state is in the frontier.
iteration_seen_one(d, p, gm, visited_states, frontier) ==
    CHOOSE out \in
        {LET new_states == {r.s : r \in {x \in results : x.k = "state"}}
             errors == {r.k : r \in results} \ {"state", "None"}
         IN  [err |-> IF errors = {} THEN "none"
                      ELSE CHOOSE e \in errors : TRUE,
              visited_states |-> visited_states \cup frontier,
              frontier |-> new_states,
              fixpoint |-> errors = {}
                             /\ new_states \cap frontier # {}] :
         results \in {{apply_assignment(d, x[1], x[2], gm) :
                            x \in assignments(p) \X frontier}}} : TRUE

\* One iteration of loop (value_analysis.py 361-389): every assignment is
\* applied to every state of the frontier.  An exception of a task is
\* raised again by f.result() and ends the analysis.
iteration(d, p, gm, visited_states, frontier) ==
    CHOOSE out \in
        {LET new_states == {r.s : r \in {x \in results : x.k = "state"}}
             errors == {r.k : r \in results} \ {"state", "None"}
         IN  [err |-> IF errors = {} THEN "none"
                      ELSE CHOOSE e \in errors : TRUE,
              visited_states |-> visited_states \cup frontier,
              frontier |-> new_states,
              fixpoint |-> errors = {}
                             /\ new_states \subseteq visited_states] :
         results \in {{apply_assignment(d, x[1], x[2], gm) :
                            x \in assignments(p) \X frontier}}} : TRUE

\* loop (value_analysis.py 358-390), n iterations left.
RECURSIVE loop_from(_, _, _, _, _, _)
loop_from(d, p, gm, n, visited_states, frontier) ==
    IF n = 0
    THEN [err |-> "none", states |-> visited_states \cup frontier,
          fixpoint |-> FALSE]
    ELSE CHOOSE out \in
            {IF it.err # "none" \/ it.fixpoint
             THEN [err |-> it.err, states |-> it.visited_states,
                   fixpoint |-> it.fixpoint]
             ELSE loop_from(d, p, gm, n - 1, it.visited_states,
                            it.frontier) :
             it \in {iteration(d, p, gm, visited_states, frontier)}} : TRUE

loop(d, p, bound, gm, s0) ==
    CHOOSE out \in
        {[err |-> r.err,
          s1 |-> [x \in DOMAIN r.s1 |-> join_adjacent(d, r.s1[x])],
          fixpoint |-> r.fixpoint, states |-> r.states] :
         r \in {[err |-> q.err, fixpoint |-> q.fixpoint,
                  s1 |-> reduce_merge(d, q.states), states |-> q.states] :
                 q \in {loop_from(d, p, gm, bound, {}, {s0})}}} : TRUE

\* dependency_analysis (value_analysis.py 212-238) on the assignments in
\* the order they are visited in, each one the name on its left and the
\* names its right-hand side refers to.  The keys of `depends`, in the
\* order they were inserted:
RECURSIVE first_keys(_)
first_keys(asgns) ==
    IF asgns = <<>> THEN <<>>
    ELSE LET front == first_keys(SubSeq(asgns, 1, Len(asgns) - 1))
             v == asgns[Len(asgns)].lhs
         IN  IF \E k \in DOMAIN front : front[k] = v THEN front
             ELSE Append(front, v)

\* update_depends for every assignment (lines 215-227)
update_depends(asgns) ==
    [v \in {asgns[k].lhs : k \in DOMAIN asgns} |->
        UNION {asgns[k].names : k \in {j \in DOMAIN asgns : asgns[j].lhs = v}}]

\* The loop of lines 229-235 from the k-th key on.  old_depends is a
\* shallow copy: it holds the very sets that depends[v].update changes, so
\* after one pass over the keys old_depends equals depends and the loop
\* ends.
RECURSIVE transitivity(_, _, _)
transitivity(depends, keys, k) ==
    IF k > Len(keys) THEN depends
    ELSE LET v == keys[k]
             more == UNION {IF w \in DOMAIN depends THEN depends[w] ELSE {} :
                                w \in depends[v]}
         IN  transitivity([depends EXCEPT ![v] = depends[v] \cup more],
                          keys, k + 1)

\* dependency_analysis for the assignments visited in the order of asgns.
depends_of(asgns) ==
    LET closed == transitivity(update_depends(asgns), first_keys(asgns), 1)
    IN  [v \in DOMAIN closed \cup {"id"} |->
            IF v = "id" THEN {} ELSE closed[v]]

\* dependency_analysis as value_analysis calls it, on a set of nodes; the
\* analysis reads the keys of the result only, which no order changes.
dependency_analysis(p) ==
    depends_of(SetToSeq({[lhs |-> a.lhs, names |-> refs(a.rhs)] :
                            a \in assignments(p)}))

\* The loop of value_analysis.py 399-407.  The first operand of the `and`
\* on line 402 is a generator expression, which is true whatever the
\* dependencies are: a variable is added as soon as the look-ahead stays
\* within the merged state.
RECURSIVE wont_change_loop(_, _, _, _, _)
wont_change_loop(d, depends, s1, s2, wc) ==
    LET new_wont_change ==
            {v \in DOMAIN depends : TRUE /\ is_within(d, s2[v], s1[v])}
    IN  IF new_wont_change \subseteq wc THEN wc
        ELSE wont_change_loop(d, depends, s1, s2, wc \cup new_wont_change)

\* value_analysis (value_analysis.py 251-411)
value_analysis(d, p) ==
    CHOOSE out \in
        {IF first.err # "none"
         THEN [err |-> first.err, s1 |-> c.s0, fixpoint |-> FALSE,
               wont_change |-> {}, states |-> first.states]
         ELSE IF first.fixpoint
         THEN [err |-> "none", s1 |-> first.s1, fixpoint |-> TRUE,
               wont_change |-> DOMAIN c.depends, states |-> first.states]
         ELSE CHOOSE res \in
                {IF second.err # "none"
                 THEN [err |-> second.err, s1 |-> c.s0, fixpoint |-> FALSE,
                       wont_change |-> {}, states |-> first.states]
                 ELSE [err |-> "none", s1 |-> first.s1, fixpoint |-> FALSE,
                       states |-> first.states,
                       wont_change |->
                         wont_change_loop(d, c.depends, first.s1,
                                          second.s1, {"id"})] :
                 second \in {loop(d, p, 1, c.gm, first.s1)}} : TRUE :
         c \in {[gm |-> guard_map(p), depends |-> dependency_analysis(p),
                  s0 |-> make_init(p, d)]},
         first \in {loop(d, p, LoopBound, guard_map(p), make_init(p, d))}}
        : TRUE

\* fmt_sign (esbmc.py 131-156) yields no constraint for a sign with all
\* three flags or none.
fmt_sign(sign) ==
    \/ (sign.plus /\ ~sign.zero /\ ~sign.minus)
    \/ (sign.plus /\ sign.zero /\ ~sign.minus)
    \/ (sign.plus /\ ~sign.zero /\ sign.minus)
    \/ (~sign.plus /\ sign.zero /\ ~sign.minus)
    \/ (~sign.plus /\ sign.zero /\ sign.minus)
    \/ (~sign.plus /\ ~sign.zero /\ sign.minus)

\* The variables whose assumptions are taken from the Stripes analysis
\* (esbmc.py 100): all fields when the fixpoint was reached.
certified(r) == IF r.fixpoint THEN DOMAIN r.s1 ELSE r.wont_change

\* An assumption without the sign check of fmt_sign.
sign_assumes_any(p, r, sg) ==
    {[var |-> f, from |-> "Sign"] :
        f \in {g \in DOMAIN sg.s1 : g # "id" /\ g \in DOMAIN p.decls}}

\* The assumptions of lines 158-188: sign constraints for the variables
\* that are not in wont_change.  lookup_var raises KeyError for names that
\* are not declared variables.
sign_assumes(p, r, sg) ==
    {[var |-> f, from |-> "Sign"] :
        f \in {g \in DOMAIN sg.s1 \ certified(r) :
                    g # "id" /\ g \in DOMAIN p.decls /\ fmt_sign(sg.s1[g])}}

\* The assumptions of lines 102-127, from the Stripes of ranges.
stripes_assumes(p, r) ==
    {[var |-> f, from |-> "Stripes"] :
        f \in {g \in certified(r) : g \in DOMAIN p.decls}}

\* Esbmc.preprocess (esbmc.py 55-211): both analyses, then __invariants().
Esbmc_preprocess ==
    /\ va_pc = "new"
    /\ va_pc' = "done"
    /\ \E r \in {value_analysis("Stripes", prog)} :
       \E sg \in {value_analysis("Sign", prog)} :
           /\ ranges' = r.s1
           /\ fix' = r.fixpoint
           /\ visited' = r.states
           /\ wont_change' = r.wont_change
           /\ s_analysis' = sg.s1
           /\ va_err' = IF r.err # "none" THEN r.err ELSE sg.err
           /\ assumes' = IF r.err # "none" \/ sg.err # "none" THEN {}
                         ELSE stripes_assumes(prog, r)
                                \cup sign_assumes(prog, r, sg)
    /\ UNCHANGED <<prog, conc>>

\* CadpCompositional.preprocess (cadp.py 214-255): the Stripes analysis,
\* refused when it did not reach the fixpoint.
CadpCompositional_preprocess ==
    /\ va_pc = "new"
    /\ va_pc' = "done"
    /\ \E r \in {value_analysis("Stripes", prog)} :
           /\ ranges' = r.s1
           /\ fix' = r.fixpoint
           /\ visited' = r.states
           /\ wont_change' = r.wont_change
           /\ va_err' = IF r.err # "none" THEN r.err
                        ELSE IF ~r.fixpoint THEN "SliverError" ELSE "none"
    /\ UNCHANGED <<prog, conc, s_analysis, assumes>>

\* --- Executions of the system.
\* The value of an expression for agent tid.
RECURSIVE value_of(_, _, _, _)
value_of(e, p, c, tid) ==
    CASE e.type = "literal" -> e.value
      [] e.type = "ref" ->
            IF e.name = "id" THEN tid
            ELSE IF p.decls[e.name].store = "e" THEN c.e[e.name]
            ELSE c.i[tid][e.name]
      [] e.type = "expr" ->
            IF e.name = "/"
            THEN value_of(e.operands[1], p, c, tid)
                    \div value_of(e.operands[2], p, c, tid)
            ELSE IF e.name = "min"
            THEN Min2(value_of(e.operands[1], p, c, tid),
                      value_of(e.operands[2], p, c, tid))
            ELSE value_of(e.operands[1], p, c, tid)
                    + value_of(e.operands[2], p, c, tid)
      [] e.type = "comparison" ->
            IF value_of(e.operands[1], p, c, tid)
                = value_of(e.operands[2], p, c, tid) THEN 1 ELSE 0

\* The assignments a process can do first, each with the guards on the way
\* to it.
RECURSIVE first_actions(_, _, _)
first_actions(node, p, gs) ==
    CASE node.type = "composition" ->
            IF node.name = "seq" THEN first_actions(node.operands[1], p, gs)
            ELSE UNION {first_actions(node.operands[k], p, gs) :
                            k \in DOMAIN node.operands}
      [] node.type = "assign" -> {[gs |-> gs, asgn |-> node]}
      [] node.type = "guarded" ->
            first_actions(node.body, p, gs \cup {node.cond})
      [] node.type = "call" -> first_actions(p.procs[node.name], p, gs)

\* The initial states the declarations allow.
initial_concrete(p) ==
    LET iv == {v \in DOMAIN p.decls : p.decls[v].store = "i"}
        ev == {v \in DOMAIN p.decls : p.decls[v].store = "e"}
        vals == UNION {p.decls[v].lo .. p.decls[v].hi : v \in DOMAIN p.decls}
        allowed(f) == \A v \in DOMAIN f :
                        p.decls[v].lo <= f[v] /\ f[v] <= p.decls[v].hi
    IN  [i : [0..(p.agents - 1) -> {f \in [iv -> vals] : allowed(f)}],
         e : {f \in [ev -> vals] : allowed(f)}]

\* One agent performs one enabled assignment of Behavior; every branch of
\* the systems considered is a single assignment followed by Behavior.
\* The system runs whatever became of the adapter that analysed it.
AgentStep ==
    /\ va_pc = "done"
    /\ \E tid \in 0..(prog.agents - 1) :
       \E fa \in first_actions(prog.procs.Behavior, prog, {}) :
            LET val == value_of(fa.asgn.rhs, prog, conc, tid)
                v == fa.asgn.lhs
            IN  /\ \A g \in fa.gs : value_of(g, prog, conc, tid) = 1
                /\ val <= MaxInt
                /\ conc' = IF prog.decls[v].store = "e"
                           THEN [conc EXCEPT !.e[v] = val]
                           ELSE [conc EXCEPT !.i[tid][v] = val]
    /\ UNCHANGED <<prog, va_pc, va_err, ranges, fix, wont_change,
                   s_analysis, assumes, visited>>

\* The systems analysed, each with one and with two agents.
Systems ==
    LET x == Ref("x")
        w == Ref("w")
        zero == Var("i", 0, 0)
        bit == Var("i", 0, 1)
        xy0 == [v \in {"x", "y"} |-> zero]
        xy1 == [v \in {"x", "y"} |-> IF v = "x" THEN bit ELSE zero]
        Q == Assign(9, "y", Literal(1))
        sys(n) == {
            \* the same process under two guards
            Program(n, xy0,
                <<Guarded(Comparison("=", x, Literal(0)), Call("Q")),
                  Guarded(Comparison("=", x, Literal(1)), Call("Q"))>>, Q),
            \* the same process guarded and unguarded
            Program(n, xy0,
                <<Call("Q"),
                  Guarded(Comparison("=", x, Literal(1)), Call("Q"))>>, Q),
            \* two guards that cannot be told apart without bisection
            Program(n, xy1,
                <<Guarded(Comparison("=", x, Literal(0)), Call("Q")),
                  Guarded(Comparison("=", x, Literal(1)), Call("Q"))>>, Q),
            \* one guard per assignment
            Program(n, xy1,
                <<Guarded(Comparison("=", x, Literal(1)),
                          Assign(1, "y", Literal(2))),
                  Assign(2, "y", x)>>, Q),
            \* no guard, finite
            Program(n, xy1,
                <<Assign(1, "y", x), Assign(2, "x", Literal(1))>>, Q),
            \* a counter and a guard it reaches after the analysis bound
            Program(n, [v \in {"w", "v"} |-> zero],
                <<Assign(1, "w", Expr("+", w, Literal(1))),
                  Guarded(Comparison("=", w, Literal(LoopBound + 1)),
                          Assign(2, "v", Literal(1)))>>, Q),
            \* a counter and a constant assignment, no guard
            Program(n, [v \in {"w", "u"} |-> zero],
                <<Assign(1, "w", Expr("+", w, Literal(1))),
                  Assign(2, "u", Literal(3))>>, Q),
            \* a counter and a variable that follows it up to 1
            Program(n, [v \in {"w", "v"} |-> zero],
                <<Assign(1, "w", Expr("+", w, Literal(1))),
                  Assign(2, "v", Expr("min", w, Literal(1)))>>, Q),
            \* a guard no value satisfies and the intervals cannot refute
            Program(n, xy1,
                <<Guarded(Comparison("=", Expr("+", x, x), Literal(1)),
                          Assign(1, "y", Literal(1)))>>, Q),
            \* a division
            Program(n, xy1,
                <<Assign(1, "y", Expr("/", x, Literal(2))),
                  Assign(2, "x", Literal(1))>>, Q),
            \* nested guards over an attribute and an environment variable
            Program(n, [v \in {"x", "y", "e"} |->
                            IF v = "e" THEN Var("e", 0, 1)
                            ELSE IF v = "x" THEN bit ELSE zero],
                <<Guarded(Comparison("=", x, Literal(0)),
                    Guarded(Comparison("=", Ref("e"), Literal(1)),
                            Assign(1, "y", Literal(1)))),
                  Assign(2, "e", x)>>, Q) }
    IN  sys(1) \cup sys(2)

\* The values a variable has in the current state, over all agents.
values_of(v) ==
    IF prog.decls[v].store = "e" THEN {conc.e[v]}
    ELSE {conc.i[t][v] : t \in DOMAIN conc.i}

\* The adapter has written its output.
Analysed == va_pc = "done" /\ va_err = "none"

\* value_analysis has returned to the adapter: when it raised instead,
\* fix is FALSE and wont_change is empty.
Returned == va_pc = "done"

(***************************************************************************)
(* Claims about the value analysis.                                        *)
(***************************************************************************)

\* C1 as stated: when the analysis reports fixpoint = true, every variable
\* has, at every point of every execution, a value within its abstract
\* value in the merged state.
C1_FixpointSound ==
    (Returned /\ fix) =>
        \A v \in DOMAIN prog.decls :
            \A n \in values_of(v) : Stripes_contains(n, ranges[v])

\* C2 as stated: a variable returned in wont_change never takes a value
\* outside the value set the merged state reports for it, whether or not
\* the fixpoint was reached.
C2_WontChangeSound ==
    Returned =>
        \A v \in wont_change \cap DOMAIN prog.decls :
            \A n \in values_of(v) : Stripes_contains(n, ranges[v])

C11_EvalFailureContained ==
    va_pc = "done" => va_err \notin {"TypeError", "AttributeError"}

\* C22 as stated: when the fixpoint is not reached, a variable other than
\* id is in wont_change only if every variable its assignments read,
\* other than itself, is in wont_change too.
C22_DependenciesCertified ==
    (va_pc = "done" /\ ~fix) =>
        \A v \in wont_change \ {"id"} :
            \A a \in {b \in assignments(prog) : b.lhs = v} :
                refs(a.rhs) \ {v} \subseteq wont_change

\* C28 as stated: apply_guard never raises; the branch marked `This
\* should be unreachable`, a ValueError, is not reached by any guard on any
\* Stripes state.
C28_GuardNeverRaises ==
    va_pc = "done" => va_err # "ValueError"

VARIABLES
    cex,        \* the states lark parsed from the counterexample
    zero_init,  \* attribute 0 is declared with the single initial value 0
    prop,       \* the name after "Violated property:"
    tr_pc,      \* position of the generator: idle, start, loop, end, done
    tr_i,       \* index in `states` of the state the loop looks at next
    tr_agent,   \* the local `agent`
    last_line,  \* the local `last_line`
    tr_system,  \* the local `system`: "" for None, or the open event
    out         \* the lines yielded so far

tvars ==
    <<cex, zero_init, prop, tr_pc, tr_i, tr_agent, last_line, tr_system, out>>

\* Length of the traces considered.
MaxCex == 3

\* State (cbmc_grammar.py 41-48); rhs is kept as the text of the trace.
CexState(function, lhs, rhs, line) ==
    [function |-> function, lhs |-> lhs, rhs |-> rhs, line |-> line]

\* The states a trace is made of: steps, assignments to attribute 0 of
\* agent 1, timestamps, the scheduler's choice, the key guessed by
\* propagate() or confirm() and the spurious flag, in init() and in the rest
\* of the program.
CexStates ==
    {CexState("main", "__LABS_step", k, 5) : k \in {"0", "1"}}
    \cup {CexState("init", "__LABS_step", "0", 5)}
    \cup {CexState("main", "I[1][0]", "7", l) : l \in {1, 2}}
    \cup {CexState("init", "I[1][0]", "7", 1)}
    \cup {CexState("init", "Ltstamp[1][0]", "7", 3)}
    \cup {CexState("main", "scheduled", "1", 4)}
    \cup {CexState(f, "guessedkey", "0", 7) : f \in {"propagate", "confirm"}}
    \cup {CexState("main", "__sim_spurious", b, 6) : b \in {"TRUE", "FALSE"}}
    \cup {CexState("__CPROVER_initialize", "I[1][0]", "0", 0)}

\* The lines: what is printed, and the state of the trace it renders
\* (0 for lines that render none).
Line(kind, text, at) == [kind |-> kind, text |-> text, at |-> at]

\* pprint_assign (cbmc.py 134-152) for a system with attributes and no
\* shared variables: only I[tid][k] is rendered, the agent is the one named
\* in the variable.
pprint_assign(var, value, at) ==
    IF var \in {"I[0][0]", "I[1][0]"}
    THEN <<Line("assign", <<var, value>>, at)>>
    ELSE <<>>

\* inits (cbmc.py 158-172) rendered by lines 177-181: the assignments made
\* in init(), then the variables initialised to 0.
RECURSIVE render_inits(_, _)
render_inits(states, i) ==
    IF i > Len(states) THEN <<>>
    ELSE (IF states[i].function = "init"
             /\ states[i].lhs # "Ltstamp[1][0]"
          THEN pprint_assign(states[i].lhs, states[i].rhs, i)
          ELSE <<>>) \o render_inits(states, i + 1)

zero_inits ==
    IF zero_init
    THEN pprint_assign("I[0][0]", "0", 0) \o pprint_assign("I[1][0]", "0", 0)
    ELSE <<>>

\* others (cbmc.py 174-176)
is_other(s) == s.function \notin {"init", "__CPROVER_initialize"}

\* cbmc.py 154-181: the initialisation block.
Translate_Start ==
    /\ tr_pc = "start"
    /\ out' = <<Line("text", <<"<initialization>">>, 0)>>
                \o render_inits(cex, 1) \o zero_inits
                \o <<Line("text", <<"<end initialization>">>, 0)>>
    /\ tr_agent' = ""
    /\ last_line' = -1
    /\ tr_system' = ""
    /\ tr_i' = 1
    /\ tr_pc' = "loop"
    /\ UNCHANGED <<cex, zero_init, prop>>

\* The body of the loop over others without the spurious test, which a
\* translator that goes on after a spurious state would have.
loop_body_no_break(state, i) ==
    IF state.lhs = "__LABS_step"
    THEN [out |-> (IF tr_system # ""
                   THEN <<Line("end", <<tr_system>>, i)>> ELSE <<>>)
                    \o <<Line("step", <<state.rhs>>, i)>>,
          agent |-> tr_agent, last_line |-> last_line, system |-> "",
          break |-> FALSE]
    ELSE IF state.lhs = "guessedkey"
    THEN [out |-> <<Line("open", <<state.function, state.rhs>>, i)>>,
          agent |-> tr_agent, last_line |-> last_line,
          system |-> state.function, break |-> FALSE]
    ELSE IF state.lhs \in {"firstAgent", "scheduled"}
    THEN [out |-> <<>>, agent |-> state.rhs, last_line |-> last_line,
          system |-> tr_system, break |-> FALSE]
    ELSE IF last_line # state.line
    THEN [out |-> pprint_assign(state.lhs, state.rhs, i),
          agent |-> tr_agent, last_line |-> state.line,
          system |-> tr_system, break |-> FALSE]
    ELSE [out |-> <<>>, agent |-> tr_agent, last_line |-> last_line,
          system |-> tr_system, break |-> FALSE]

\* The body of the loop over others (cbmc.py 186-209) for one state.
loop_body(state, i) ==
    IF state.lhs = "__LABS_step"
    THEN [out |-> (IF tr_system # ""
                   THEN <<Line("end", <<tr_system>>, i)>> ELSE <<>>)
                    \o <<Line("step", <<state.rhs>>, i)>>,
          agent |-> tr_agent, last_line |-> last_line, system |-> "",
          break |-> FALSE]
    ELSE IF state.lhs = "__sim_spurious" /\ state.rhs = "TRUE"
    THEN [out |-> <<Line("text", <<"<spurious>">>, i)>>, agent |-> tr_agent,
          last_line |-> last_line, system |-> tr_system, break |-> TRUE]
    ELSE IF state.lhs = "guessedkey"
    THEN [out |-> <<Line("open", <<state.function, state.rhs>>, i)>>,
          agent |-> tr_agent, last_line |-> last_line,
          system |-> state.function, break |-> FALSE]
    ELSE IF state.lhs \in {"firstAgent", "scheduled"}
    THEN [out |-> <<>>, agent |-> state.rhs, last_line |-> last_line,
          system |-> tr_system, break |-> FALSE]
    ELSE IF last_line # state.line
    THEN [out |-> pprint_assign(state.lhs, state.rhs, i),
          agent |-> tr_agent, last_line |-> state.line,
          system |-> tr_system, break |-> FALSE]
    ELSE [out |-> <<>>, agent |-> tr_agent, last_line |-> last_line,
          system |-> tr_system, break |-> FALSE]

\* One iteration of the loop of cbmc.py 186: states of init() and of
\* __CPROVER_initialize are not in others.
Translate_State ==
    /\ tr_pc = "loop"
    /\ tr_i <= Len(cex)
    /\ IF is_other(cex[tr_i])
       THEN \E r \in {loop_body(cex[tr_i], tr_i)} :
                /\ out' = out \o r.out
                /\ tr_agent' = r.agent
                /\ last_line' = r.last_line
                /\ tr_system' = r.system
                /\ tr_pc' = IF r.break THEN "end" ELSE "loop"
       ELSE UNCHANGED <<out, tr_agent, last_line, tr_system, tr_pc>>
    /\ tr_i' = tr_i + 1
    /\ UNCHANGED <<cex, zero_init, prop>>

\* The loop is over.
Translate_Exhausted ==
    /\ tr_pc = "loop"
    /\ tr_i > Len(cex)
    /\ tr_pc' = "end"
    /\ UNCHANGED <<cex, zero_init, prop, tr_i, tr_agent, last_line, tr_system,
                   out>>

\* cbmc.py 211-214: the violated property, unless the trace is a simulation.
Translate_End ==
    /\ tr_pc = "end"
    /\ out' = out
                \o (IF prop # "__sliver_simulation__"
                    THEN <<Line("text", <<"<property violated>", prop>>, 0)>>
                    ELSE <<>>)
                \o <<Line("text", <<"\n">>, 0)>>
    /\ tr_pc' = "done"
    /\ UNCHANGED <<cex, zero_init, prop, tr_i, tr_agent, last_line, tr_system>>

\* The lines after <end initialization>.
RECURSIVE after_init(_)
after_init(lines) ==
    IF lines = <<>> THEN <<>>
    ELSE IF Head(lines).text = <<"<end initialization>">> THEN Tail(lines)
    ELSE after_init(Tail(lines))

is_header(l) == l.kind = "step"
is_rendering(l) == l.kind \in {"step", "assign"}

\* The first state that sets __sim_spurious to TRUE; past the end of the
\* trace when there is none.
first_spurious ==
    LET sp == {i \in 1..Len(cex) : /\ is_other(cex[i])
                                   /\ cex[i].lhs = "__sim_spurious"
                                   /\ cex[i].rhs = "TRUE"}
    IN  IF sp = {} THEN Len(cex) + 1
        ELSE CHOOSE i \in sp : \A j \in sp : i <= j

\* The lines after the initialisation render states of the trace in the
\* order of the trace, each state at most once and with its value, and
\* the headers are those of the states in `expected`.
in_backend_order(expected) ==
    LET body == SelectSeq(after_init(out), is_rendering)
    IN  /\ \A p, q \in DOMAIN body : p < q => body[p].at < body[q].at
        /\ \A p \in DOMAIN body :
                body[p].text[Len(body[p].text)] = cex[body[p].at].rhs
        /\ {body[p].at : p \in {q \in DOMAIN body : is_header(body[q])}}
                = expected

\* C12 as stated: when the translation is over there is one <step k>
\* header for every __LABS_step = k state of the trace, in the order and
\* with the values of the trace, and every rendered assignment lies between
\* the header of its step and the next header.
C12_BackendOrder ==
    tr_pc = "done" =>
        in_backend_order({i \in DOMAIN cex : cex[i].lhs = "__LABS_step"})

\* C12 amended: the same for the states outside init() and
\* __CPROVER_initialize, up to the first state that sets __sim_spurious to
\* TRUE, after which no state is rendered.
C12_BackendOrderUntilSpurious ==
    tr_pc = "done" =>
        /\ in_backend_order({i \in DOMAIN cex :
                                /\ cex[i].lhs = "__LABS_step"
                                /\ is_other(cex[i])
                                /\ i < first_spurious})
        /\ \A p \in DOMAIN after_init(out) :
                after_init(out)[p].at <= first_spurious

\* C12 witness: a header, an assignment of that step and the next header
\* were rendered, as in __LABS_step=0, I[1][0]=7, __LABS_step=1.
C12_Witness ==
    /\ tr_pc = "done"
    /\ \E p \in DOMAIN out :
        /\ p + 2 \in DOMAIN out
        /\ out[p] = Line("step", <<"0">>, 1)
        /\ out[p + 1] = Line("assign", <<"I[1][0]", "7">>, 2)
        /\ out[p + 2] = Line("step", <<"1">>, 3)

is_event(l) == l.kind \in {"open", "end"}

\* C23 as stated: in the output the stigmergy events are well nested.  Every
\* event a guessedkey state opens is followed, before any other event, by
\* the end marker of the same function; every end marker closes the event
\* opened just before it and stands right before a step header; so at most
\* one event is open at a time and none is open when the output ends.
C23_EventsNested ==
    tr_pc = "done" =>
        LET ev == SelectSeq(out, is_event)
        IN  /\ \A p \in DOMAIN ev :
                    ev[p].kind = "open" =>
                        /\ p + 1 \in DOMAIN ev
                        /\ ev[p + 1].kind = "end"
                        /\ ev[p + 1].text[1] = ev[p].text[1]
            /\ \A p \in DOMAIN ev :
                    ev[p].kind = "end" => p > 1 /\ ev[p - 1].kind = "open"
            /\ \A q \in DOMAIN out :
                    out[q].kind = "end" =>
                        q + 1 \in DOMAIN out /\ out[q + 1].kind = "step"

\* The states that assign to a store outside init().
is_store_assignment(i) ==
    /\ is_other(cex[i])
    /\ cex[i].lhs \in {"I[0][0]", "I[1][0]"}

\* The last __LABS_step state before state i; 0 when there is none.
step_before(i) ==
    LET st == {j \in 1..(i - 1) : is_other(cex[j]) /\ cex[j].lhs = "__LABS_step"}
    IN  IF st = {} THEN 0 ELSE CHOOSE j \in st : \A k \in st : k <= j

\* C30 as stated: every store assignment recorded after a __LABS_step
\* state and before the first spurious state is rendered under that step
\* at least once: the output has, for an assignment made at the same source
\* line since that step, a line.
C30_CollapseWithinStep ==
    tr_pc = "done" =>
        \A i \in DOMAIN cex :
            (is_store_assignment(i) /\ i < first_spurious
                /\ step_before(i) > 0) =>
                \E p \in DOMAIN out :
                    /\ out[p].kind = "assign"
                    /\ step_before(i) < out[p].at
                    /\ out[p].at <= i
                    /\ cex[out[p].at].line = cex[i].line

(***************************************************************************)
(* The translation of CADP traces: translate_cadp in sliver/app/cex.py.    *)
(***************************************************************************)
VARIABLES
    lnt,        \* the lines of the trace
    ca_pc,      \* position of the generator: idle, start, loop, done, raised
    ca_i,       \* index in `lines` of the line the loop looks at next
    ca_out      \* the lines yielded so far

cavars == <<lnt, ca_pc, ca_i, ca_out>>

\* Number of lines between <initial state> and the end of the trace.
MaxLnt == 2

\* A line of the trace: whether it starts with a double quote, and the
\* words between the quotes.
LntLine(q, toks) == [q |-> q, toks |-> toks]

Numbers == {"0", "1", "7"}
Booleans == {"TRUE", "FALSE"}
Quoted == {"\"deadlock\""}

\* Word(alphanums) (cex.py 139)
is_NAME(t) == t \notin {"!"} \cup Quoted

\* OBJ (cex.py 142), without records
is_OBJ(t) == t \in Numbers \cup Booleans

\* The action lines of a trace, and a line that is not quoted.
LntLines ==
    {LntLine(TRUE, <<"MONITOR", "!", b>>) : b \in Booleans \cup Quoted}
    \cup {LntLine(TRUE, <<"ENDINIT">>),
          LntLine(TRUE, <<"ATTR", "!", "1", "!", "0", "!", "7">>),
          LntLine(TRUE, <<"invisible transition">>),
          LntLine(TRUE, <<"TICK", "!", "1">>),
          LntLine(FALSE, <<"*** transition">>)}

\* cex.py 126-133: the quoted lines after <initial state> and before
\* <goal state> or <deadlock>, without their quotes.
RECURSIVE first_index(_, _, _)
first_index(lines, from, marks) ==
    IF lines[from].toks[1] \in marks THEN from
    ELSE first_index(lines, from + 1, marks)

quoted_lines(lines) ==
    LET start_line == first_index(lines, 1, {"<initial state>"}) + 1
        end_line == first_index(lines, start_line,
                                 {"<goal state>", "<deadlock>"})
        is_quoted(l) == l.q
    IN  SelectSeq(SubSeq(lines, start_line, end_line - 1), is_quoted)

\* ASGN = NAME + ZeroOrMore(Suppress("!") + OBJ) (cex.py 146): the number
\* of words it consumes, 0 when it does not match.
RECURSIVE more_objs(_, _)
more_objs(toks, k) ==
    IF k + 1 <= Len(toks) /\ toks[k] = "!" /\ is_OBJ(toks[k + 1])
    THEN more_objs(toks, k + 2)
    ELSE k - 1

ASGN(toks) == IF is_NAME(toks[1]) THEN more_objs(toks, 2) ELSE 0

\* MONITOR = Keyword("MONITOR") + Suppress("!") + (BOOLEAN | QUOTES)
\* (cex.py 147)
MONITOR(toks) ==
    IF Len(toks) >= 3 /\ toks[1] = "MONITOR" /\ toks[2] = "!"
        /\ toks[3] \in Booleans \cup Quoted
    THEN 3 ELSE 0

\* ppc.number()
number(toks) == IF toks[1] \in Numbers THEN 1 ELSE 0

\* The tokens of the words consumed: "!" is suppressed, removeQuotes takes
\* the quotes of a string away.
tokens(toks, n) ==
    LET kept(t) == t # "!"
        unquote(t) == IF t = "\"deadlock\"" THEN "deadlock" ELSE t
        ws == SelectSeq(SubSeq(toks, 1, n), kept)
    IN  [k \in DOMAIN ws |-> unquote(ws[k])]

\* STEP = ppc.number() | ASGN | MONITOR (cex.py 148): the first alternative
\* that matches is taken.
STEP(toks) ==
    IF number(toks) > 0 THEN number(toks)
    ELSE IF ASGN(toks) > 0 THEN ASGN(toks)
    ELSE MONITOR(toks)

\* STEP.parseString(l, parseAll=True) (cex.py 159): the tokens, or <<>>
\* for ParseException.
parseString(toks) ==
    IF STEP(toks) = Len(toks) THEN tokens(toks, Len(toks)) ELSE <<>>

\* What the loop yields for a parsed step (cex.py 160-181).
render(step, at) ==
    IF step[1] = "ENDINIT" THEN <<Line("text", "<end initialization>", at)>>
    ELSE IF step[1] = "MONITOR" /\ step[2] = "deadlock"
    THEN <<Line("text", "<deadlock>", at)>>
    ELSE IF step[1] = "MONITOR"
    THEN <<Line("text", IF step[2] \in {"FALSE", "0"}
                        THEN "<property violated>"
                        ELSE "<property satisfied>", at)>>
    ELSE IF step[1] = "E"
    THEN <<Line("list", "E", at), Line("assign", "E", at)>>
    ELSE IF step[1] = "ATTR" THEN <<Line("assign", "I", at)>>
    ELSE IF step[1] = "L" THEN <<Line("assign", "L", at)>>
    ELSE <<Line("text", "<could not parse>", at)>>

\* cex.py 126-150
Cadp_Start ==
    /\ ca_pc = "start"
    /\ ca_out' = <<Line("text", "<initialization>", 0)>>
    /\ ca_i' = 1
    /\ ca_pc' = "loop"
    /\ UNCHANGED lnt

\* One iteration of the loop of cex.py 152-181.
Cadp_Line ==
    /\ ca_pc = "loop"
    /\ ca_i <= Len(quoted_lines(lnt))
    /\ \E l \in {quoted_lines(lnt)[ca_i].toks} :
        IF l[1] = "invisible transition"
        THEN /\ ca_i' = ca_i + 1
             /\ UNCHANGED <<ca_out, ca_pc>>
        ELSE IF parseString(l) = <<>>
        THEN /\ ca_pc' = "raised"
             /\ UNCHANGED <<ca_out, ca_i>>
        ELSE /\ ca_out' = ca_out \o render(parseString(l), ca_i)
             /\ ca_i' = ca_i + 1
             /\ UNCHANGED ca_pc
    /\ UNCHANGED lnt

\* The loop is over.
Cadp_Return ==
    /\ ca_pc = "loop"
    /\ ca_i > Len(quoted_lines(lnt))
    /\ ca_pc' = "done"
    /\ UNCHANGED <<lnt, ca_i, ca_out>>

is_monitor(l) == l.toks[1] = "MONITOR"

\* C13 as stated: no MONITOR action is rejected by the grammar, and every
\* MONITOR action translated so far was rendered as <property satisfied>
\* (TRUE), <property violated> (FALSE) or <deadlock>.
C13_MonitorRendered ==
    ca_pc \in {"loop", "done", "raised"} =>
        LET lines == quoted_lines(lnt)
        IN  /\ ca_pc = "raised" => ~is_monitor(lines[ca_i])
            /\ \A k \in 1..(ca_i - 1) :
                is_monitor(lines[k]) =>
                    \E p \in DOMAIN ca_out :
                        /\ ca_out[p].at = k
                        /\ ca_out[p].kind = "text"
                        /\ ca_out[p].text =
                            CASE lines[k].toks[3] = "TRUE" ->
                                    "<property satisfied>"
                              [] lines[k].toks[3] = "FALSE" ->
                                    "<property violated>"
                              [] OTHER -> "<deadlock>"

(***************************************************************************)
(* The abstract domains on their own: the operators of Stripes and Sign    *)
(* (sliver/analysis/domains.py) applied to operands drawn from bounded     *)
(* sets.                                                                   *)
(***************************************************************************)
VARIABLES
    st_a, st_b,     \* the Stripes operands
    st_op,          \* the operator applied
    st_res,         \* the Stripes it returned
    st_halves,      \* the pair bisect returned, <<>> for (None, None)
    st_err,         \* the exception raised
    st_pc,          \* new, done
    sg_x, sg_y,     \* the Sign operands
    sg_res          \* the Sign returned

dovars == <<st_a, st_b, st_op, st_res, st_halves, st_err, st_pc,
            sg_x, sg_y, sg_res>>

\* The integers of the first operand are in -MaxStripe..MaxStripe.
MaxStripe == 2

\* The two invariants of a Stripes value (domains.py 347-354).
Stripes_invariant(s) ==
    \A x \in s : \A y \in s :
        x # y => ~Interval_overlaps(x, y) /\ ~Interval_is_within(x, y)

\* The Stripes made of the integers `values`, where a run of consecutive
\* integers is split after each integer of `cuts`.
stripes_of(values, cuts) ==
    {i \in {I(x, y) : x \in values, y \in values} :
        /\ i[1] <= i[2]
        /\ \A n \in i[1]..i[2] : n \in values
        /\ \A n \in i[1]..(i[2] - 1) : n \notin cuts
        /\ (i[1] - 1) \in values => (i[1] - 1) \in cuts
        /\ (i[2] + 1) \in values => i[2] \in cuts}

\* The non-empty Stripes over lo..hi that satisfy the invariants.
ValidStripes(lo, hi) ==
    {stripes_of(values, cuts) :
        values \in (SUBSET (lo..hi)) \ {{}}, cuts \in SUBSET (lo..(hi - 1))}

\* The integers a Stripes value stands for (Stripes.__iter__).
values_in(a) == UNION {i[1]..i[2] : i \in a}

\* Every order in which list(self.stripes) can list a frozenset.
bisect_lists(a) ==
    IF Cardinality(a) > 1
    THEN {<<left, a \ left>> :
            left \in {x \in SUBSET a : Cardinality(x) = Cardinality(a) \div 2}}
    ELSE {Stripes_bisect(a)}

StripesOps ==
    {"abstract", "abstract_range", "__or__", "join_adjacent", "equality",
     "__lt__", "__neg__", "__invert__", "__abs__", "__add__", "__sub__",
     "__mul__", "__mod__", "__floordiv__", "Min", "Max", "Range"}

\* The exception an operator raises on a and b.  Stripes defines no
\* __floordiv__, so x // y (eval_expr's "/") is a TypeError.
Stripes_raises(op, a, b) ==
    IF op = "__floordiv__" THEN "TypeError"
    ELSE IF op = "__mod__" /\ \E i \in b : i[1] = 0 \/ i[2] = 0
    THEN "ZeroDivisionError"
    ELSE IF op = "Range" /\ Range_stripes(a, b) = {} THEN "ValueError"
    ELSE "none"

\* What an operator returns when it does not raise.
Stripes_apply(op, a, b) ==
    CASE op = "abstract" -> Stripes_abstract(values_in(a))
      [] op = "abstract_range" ->
            Stripes_abstract_range(extrema(a)[1], extrema(a)[2])
      [] op = "__or__" -> Stripes_or(a, b)
      [] op = "join_adjacent" -> Stripes_join_adjacent(a)
      [] op = "equality" -> Stripes_equality(a, b)
      [] op = "__lt__" -> Stripes_lt(a, b)
      [] op = "__neg__" -> Stripes_neg(a)
      [] op = "__invert__" -> Stripes_invert(a)
      [] op = "__abs__" -> Stripes_abs(a)
      [] op = "__add__" -> Stripes_add(a, b)
      [] op = "__sub__" -> Stripes_sub(a, b)
      [] op = "__mul__" -> Stripes_mul(a, b)
      [] op = "__mod__" -> Stripes_mod(a, b)
      [] op = "Min" -> Stripes_Min(a, b)
      [] op = "Max" -> Stripes_Max(a, b)
      [] op = "Range" -> Stripes_Range(a, b)

\* One operator of Stripes other than bisect is applied.
Stripes_operator ==
    /\ st_pc = "new"
    /\ \E op \in StripesOps :
        /\ st_op' = op
        /\ st_err' = Stripes_raises(op, st_a, st_b)
        /\ st_res' = IF Stripes_raises(op, st_a, st_b) = "none"
                     THEN Stripes_apply(op, st_a, st_b) ELSE {}
    /\ st_pc' = "done"
    /\ UNCHANGED <<st_a, st_b, st_halves, sg_x, sg_y, sg_res>>

\* st_a.bisect()
Stripes_bisect_call ==
    /\ st_pc = "new"
    /\ st_op' = "bisect"
    /\ st_halves' \in bisect_lists(st_a)
    /\ st_pc' = "done"
    /\ UNCHANGED <<st_a, st_b, st_res, st_err, sg_x, sg_y, sg_res>>

\* sg_x + sg_y
Sign_add_call ==
    /\ st_pc = "new_sign"
    /\ st_op' = "Sign.__add__"
    /\ sg_res' = Sign_add(sg_x, sg_y)
    /\ st_pc' = "done"
    /\ UNCHANGED <<st_a, st_b, st_res, st_halves, st_err, sg_x, sg_y>>

\* C14: every Stripes value an operator returns from operands that satisfy
\* the two invariants satisfies them again: no two of its intervals
\* overlap and none is contained in another.
C14_InvariantPreserved ==
    (st_pc = "done" /\ st_err = "none") =>
        IF st_op = "bisect"
        THEN st_halves # <<>> =>
                Stripes_invariant(st_halves[1]) /\ Stripes_invariant(st_halves[2])
        ELSE st_op \in StripesOps => Stripes_invariant(st_res)

\* An operator has pruned: the sum of two Stripes whose pairwise sums
\* overlap is a single interval.
C14_Witness ==
    /\ st_pc = "done"
    /\ st_op = "__add__"
    /\ st_a = {I(0, 0), I(2, 2)}
    /\ st_b = {I(-1, 1)}
    /\ st_res = {I(-1, 3)}

\* Python's a // b for b # 0.
py_floordiv(a, b) == IF b > 0 THEN a \div b ELSE (-a) \div (-b)

\* The arithmetic of the evaluator on integers (value_analysis.py 64-69).
arith(op, a, b) ==
    CASE op = "__add__" -> a + b
      [] op = "__sub__" -> a - b
      [] op = "__mul__" -> a * b
      [] op = "__floordiv__" -> py_floordiv(a, b)
      [] op = "__mod__" -> py_mod(a, b)

\* C24 as stated: for +, -, *, / and % the abstract result is defined and
\* contains a op b for every a in x and b in y for which a op b is
\* defined.
C24_ArithmeticSound ==
    (st_pc = "done"
        /\ st_op \in {"__add__", "__sub__", "__mul__", "__floordiv__", "__mod__"})
    =>  /\ st_err = "none"
        /\ \A a \in values_in(st_a) : \A b \in values_in(st_b) :
                (st_op \in {"__floordiv__", "__mod__"} => b # 0)
                    => arith(st_op, a, b) \in values_in(st_res)

\* C15: a < b is one of YES, NO, MAYBE; it is YES only if every value of
\* a is below every value of b and NO only if no value of a is below any
\* value of b; when a or b is a single integer it is YES iff
\* max(a) < min(b), NO iff min(a) >= max(b), and MAYBE otherwise.
C15_LessThan ==
    (st_pc = "done" /\ st_op = "__lt__") =>
        LET va == values_in(st_a)
            vb == values_in(st_b)
            single == Cardinality(va) = 1 \/ Cardinality(vb) = 1
        IN  /\ st_res \in {S(1, 1), S(0, 0), S(0, 1)}
            /\ st_res = S(1, 1) => \A x \in va : \A y \in vb : x < y
            /\ st_res = S(0, 0) => \A x \in va : \A y \in vb : ~(x < y)
            /\ single =>
                /\ st_res = S(1, 1) <=> max_of(va) < min_of(vb)
                /\ st_res = S(0, 0) <=> min_of(va) >= max_of(vb)

\* [0,1] < 1 is MAYBE, as [4,5] < 5.
C15_Witness ==
    /\ st_pc = "done"
    /\ st_op = "__lt__"
    /\ st_a = S(0, 1)
    /\ st_b = S(1, 1)
    /\ st_res = S(0, 1)

\* C16 as stated: bisect returns (None, None) for a single integer, and
\* otherwise two non-empty Stripes whose join, left | right, equals s.
C16_BisectJoin ==
    (st_pc = "done" /\ st_op = "bisect") =>
        IF Cardinality(values_in(st_a)) = 1
        THEN st_halves = <<>>
        ELSE /\ st_halves # <<>>
             /\ st_halves[1] # {}
             /\ st_halves[2] # {}
             /\ Stripes_or(st_halves[1], st_halves[2]) = st_a

\* C16, amended: bisect returns (None, None) for a single integer, and
\* otherwise two non-empty Stripes whose join stands for the integers of
\* s: it equals s when s has several intervals, and it is the two
\* adjacent halves of s, which join_adjacent merges into s, when s is a
\* single interval.
C16_BisectJoinAdjacent ==
    (st_pc = "done" /\ st_op = "bisect") =>
        IF Cardinality(values_in(st_a)) = 1
        THEN st_halves = <<>>
        ELSE /\ st_halves # <<>>
             /\ st_halves[1] # {}
             /\ st_halves[2] # {}
             /\ \E joined \in {Stripes_or(st_halves[1], st_halves[2])} :
                /\ values_in(joined) = values_in(st_a)
                /\ Cardinality(st_a) > 1 => joined = st_a
                /\ Cardinality(st_a) = 1 =>
                    /\ joined = st_halves[1] \cup st_halves[2]
                    /\ Stripes_join_adjacent(joined) = st_a

\* The interval [-2, 2] was bisected into [-2, 0] and [1, 2].
C16_Witness ==
    /\ st_pc = "done"
    /\ st_op = "bisect"
    /\ st_a = S(-2, 2)
    /\ st_halves = <<S(-2, 0), S(1, 2)>>

\* Sign.__contains__
Sign_contains(n, a) ==
    IF n < 0 THEN a.minus ELSE IF n = 0 THEN a.zero ELSE a.plus

\* C17: x + y is exactly the set of signs of a + b over the integers a in
\* x and b in y (two integers of each sign are enough to produce every
\* sign of a sum).
C17_SignAddTable ==
    (st_pc = "done" /\ st_op = "Sign.__add__") =>
        LET sums == {a + b : a \in {n \in -2..2 : Sign_contains(n, sg_x)},
                             b \in {n \in -2..2 : Sign_contains(n, sg_y)}}
        IN  sg_res = Sign_abstract(sums)

(***************************************************************************)
(* Quantifier elimination: remove_quant in sliver/atlas/atlas.py.          *)
(***************************************************************************)
VARIABLES
    q_formula,  \* the body of the quantified formula
    q_quant,    \* forall, exists
    q_lo, q_hi, \* the agents of the kind are q_lo..q_hi-1
    q_res,      \* the node remove_quant returned
    q_err,      \* the exception it raised
    q_pc        \* new, done

qvars == <<q_formula, q_quant, q_lo, q_hi, q_res, q_err, q_pc>>

\* The largest number of agents of a kind.
MaxAgents == 3

\* A node of the syntax tree: a reference `name of of` ("" for no `of`),
\* a literal, or an expression over operands.  A synthetic literal that
\* holds the label name_<tid> has that name and tid as its value.
AstRef(name, of) ==
    [type |-> "ref", name |-> name, of |-> of, value |-> 0,
     operands |-> <<>>]
AstLiteral(name, value) ==
    [type |-> "literal", name |-> name, of |-> "", value |-> value,
     operands |-> <<>>]
AstExpr(name, operands) ==
    [type |-> "expr", name |-> name, of |-> "", value |-> 0,
     operands |-> operands]

\* The node that stands for a raised TypeError.
AstRaised == AstLiteral("TypeError", -1)

\* of_matches (atlas.py 148-152)
of_matches(node, what) == node.type = "ref" /\ node.of = what

\* replace_with_string (atlas.py 118-120)
replace_with_string(f, agent) == AstLiteral(f.name, agent)

\* replace_with (atlas.py 154-176) for the variable "x".  The test
\* of_matches("id") of line 166 is a call without its second argument: it
\* raises TypeError.
RECURSIVE replace_with(_, _)
replace_with(f, agent) ==
    IF f.type = "ref"
    THEN IF of_matches(f, "x") THEN replace_with_string(f, agent)
         ELSE AstRaised
    ELSE IF f.type = "expr"
    THEN LET ops == [k \in DOMAIN f.operands |->
                        replace_with(f.operands[k], agent)]
         IN  IF \E k \in DOMAIN ops : ops[k] = AstRaised THEN AstRaised
             ELSE [f EXCEPT !.operands = ops]
    ELSE f

\* The formula object after replace_with has run for the first k agents:
\* an expression node is changed in place (lines 173-174).
RECURSIVE after_agents(_, _, _)
after_agents(formula, lo, k) ==
    IF k = 0 \/ formula.type # "expr" THEN formula
    ELSE LET before == after_agents(formula, lo, k - 1)
         IN  IF before = AstRaised THEN AstRaised
             ELSE replace_with(before, lo + k - 1)

\* remove_quant (atlas.py 141-198): the node returned, AstRaised for an
\* exception.  replace_with returns the formula object itself when it is
\* an expression, so every operand is that one object.
remove_quant(formula, quant, lo, hi) ==
    LET n == hi - lo
        operands ==
            [k \in 1..n |->
                IF formula.type = "expr" THEN after_agents(formula, lo, n)
                ELSE replace_with(formula, lo + k - 1)]
    IN  IF \E k \in 1..n : operands[k] = AstRaised THEN AstRaised
        ELSE AstExpr(IF quant = "forall" THEN "and" ELSE "or", operands)

\* remove_quant(formula, quant, "x", range(lo, hi))
Remove_quant ==
    /\ q_pc = "new"
    /\ \E r \in {remove_quant(q_formula, q_quant, q_lo, q_hi)} :
        /\ q_err' = IF r = AstRaised THEN "TypeError" ELSE "none"
        /\ q_res' = r
    /\ q_pc' = "done"
    /\ UNCHANGED <<q_formula, q_quant, q_lo, q_hi>>

\* The body specialised to an agent: a reference `of x` becomes the agent
\* id when its name is id and the label name_<tid> otherwise; the rest is
\* unchanged.
RECURSIVE specialised(_, _)
specialised(f, agent) ==
    IF f.type = "ref" /\ f.of = "x"
    THEN IF f.name = "id" THEN AstLiteral("", agent)
         ELSE AstLiteral(f.name, agent)
    ELSE IF f.type = "expr"
    THEN [f EXCEPT !.operands =
            [k \in DOMAIN f.operands |-> specialised(f.operands[k], agent)]]
    ELSE f

\* C18 as stated: eliminating x over the agents lo..hi-1 yields an `and`
\* (forall) or `or` (exists) node with hi-lo operands, the k-th being the
\* body with every reference `of x` specialised to agent lo+k and every
\* other reference unchanged.
C18_QuantEliminated ==
    q_pc = "done" =>
        /\ q_err = "none"
        /\ q_res.type = "expr"
        /\ q_res.name = (IF q_quant = "forall" THEN "and" ELSE "or")
        /\ Len(q_res.operands) = q_hi - q_lo
        /\ \A k \in 1..(q_hi - q_lo) :
            q_res.operands[k] = specialised(q_formula, q_lo + k - 1)

(***************************************************************************)
(* The dependency analysis on its own (value_analysis.py 212-238).         *)
(***************************************************************************)
VARIABLES
    dep_asgns,  \* the assignments, in the order the sets are iterated in
    dep_res,    \* the dictionary returned
    dep_pc      \* new, done

depvars == <<dep_asgns, dep_res, dep_pc>>

\* The largest number of assignments.
MaxAsgn == 3

\* dependency_analysis(assignments, blocks)
Dependency_analysis ==
    /\ dep_pc = "new"
    /\ dep_res' = depends_of(dep_asgns)
    /\ dep_pc' = "done"
    /\ UNCHANGED dep_asgns

\* C21 as stated: the relation returned is transitively closed, whenever
\* v depends on w and w depends on u then v depends on u, for every order
\* of the assignments; and id depends on nothing.
C21_TransitivelyClosed ==
    dep_pc = "done" =>
        /\ dep_res["id"] = {}
        /\ \A v \in DOMAIN dep_res : \A w \in dep_res[v] :
            w \in DOMAIN dep_res => dep_res[w] \subseteq dep_res[v]

(***************************************************************************)
(* The inits fragment: Concretizer._setup_initial_state and fmt_inits of   *)
(* get_concretization in sliver/atlas/concretizer.py, for one agent.       *)
(***************************************************************************)
VARIABLES
    ini_decl,   \* the sizes of the variables declared in each store
    ini_model,  \* the value the model gives to each declared cell
    ini_cells,  \* Concretizer.attrs[0], lstigs[0] and envs
    ini_out,    \* the assignments of the fragment, in order
    ini_pc      \* new, setup, done

inivars == <<ini_decl, ini_model, ini_cells, ini_out, ini_pc>>

\* Number of variables declared in a store.
MaxDecl == 2

Stores == {"I", "L", "E"}

\* Var.index: the variables of a store lie one after the other.
RECURSIVE var_index(_, _)
var_index(sizes, k) ==
    IF k = 1 THEN 0 ELSE var_index(sizes, k - 1) + sizes[k - 1]

\* The cells of variable k: range(v.index, v.index + v.size) for an array,
\* v.index for a scalar.
cells_of(sizes, k) ==
    [j \in 1..sizes[k] |-> var_index(sizes, k) + j - 1]

\* The cells declared in a store.
declared(sizes) ==
    UNION {{cells_of(sizes, k)[j] : j \in 1..sizes[k]} : k \in DOMAIN sizes}

\* A list that every variable extends.
RECURSIVE extended(_, _)
extended(sizes, k) ==
    IF k = 0 THEN <<>> ELSE extended(sizes, k - 1) \o cells_of(sizes, k)

\* self.envs = envs (concretizer.py 236): every variable replaces the list.
assigned(sizes) ==
    IF sizes = <<>> THEN <<>> ELSE cells_of(sizes, Len(sizes))

\* Concretizer._setup_initial_state (concretizer.py 210-237): the lists
\* attrs[0], lstigs[0] and envs.
setup_initial_state(d) ==
    [I |-> extended(d.I, Len(d.I)), L |-> extended(d.L, Len(d.L)),
     E |-> assigned(d.E)]

\* One generator of fmt_inits (concretizer.py 387-406): index(attr) is the
\* number the name of the cell ends with, and cells whose value prints as
\* "0" are skipped.
RECURSIVE fmt_store(_, _, _)
fmt_store(store, cells, mdl) ==
    IF cells = <<>> THEN <<>>
    ELSE (IF mdl[<<store, Head(cells)>>] # 0
          THEN <<[store |-> store, tid |-> 0, idx |-> Head(cells),
                  v |-> mdl[<<store, Head(cells)>>]]>>
          ELSE <<>>) \o fmt_store(store, Tail(cells), mdl)

fmt_inits(cells, mdl) ==
    fmt_store("I", cells.I, mdl) \o fmt_store("L", cells.L, mdl)
        \o fmt_store("E", cells.E, mdl)

\* Concretizer.__init__ (concretizer.py 113-128)
Inits_Setup ==
    /\ ini_pc = "new"
    /\ ini_cells' = setup_initial_state(ini_decl)
    /\ ini_pc' = "setup"
    /\ UNCHANGED <<ini_decl, ini_model, ini_out>>

\* get_concretization returns (fmt_globals(m), fmt_inits(m)).
Inits_Format ==
    /\ ini_pc = "setup"
    /\ ini_out' = fmt_inits(ini_cells, ini_model)
    /\ ini_pc' = "done"
    /\ UNCHANGED <<ini_decl, ini_model, ini_cells>>

\* The declared cells of every store.
all_cells(d) ==
    ({"I"} \X declared(d.I)) \cup ({"L"} \X declared(d.L))
        \cup ({"E"} \X declared(d.E))

\* C27 as stated: the fragment has exactly one assignment for every
\* declared cell whose value in the model is not 0, with that value, none
\* for a cell whose value is 0, and none for any other cell.
C27_InitsComplete ==
    ini_pc = "done" =>
        /\ \A c \in all_cells(ini_decl) :
            Cardinality({p \in DOMAIN ini_out :
                            /\ ini_out[p].store = c[1]
                            /\ ini_out[p].idx = c[2]
                            /\ ini_out[p].v = ini_model[c]})
                = IF ini_model[c] # 0 THEN 1 ELSE 0
        /\ \A p \in DOMAIN ini_out :
            /\ <<ini_out[p].store, ini_out[p].idx>> \in all_cells(ini_decl)
            /\ ini_out[p].v = ini_model[<<ini_out[p].store, ini_out[p].idx>>]

(***************************************************************************)
(* SAT-level simulation: Cbmc.simulate, sat_level_concretization and       *)
(* minisat_incantation in sliver/backends/cbmc.py.  The main thread, the   *)
(* task it submits to the thread pool and the wrapper script the backend   *)
(* runs as its SAT solver are three processes.                             *)
(***************************************************************************)
VARIABLES
    sat_iter,    \* the loop variable i of simulate
    main_pc,     \* the main thread: loop, run (inside run(cmd)), done
    task_pc,     \* the task: none, submitted, weaks, written, done, failed
    sleepy_pc,   \* the wrapper the backend calls: none, poll, exec, done
    script,      \* the file script.name: its content and its x permission
    ran,         \* the content of the script each time the wrapper ran it
    bv_num,      \* the value of a cell in the model of the task
    bv_width,    \* len(vars_), the bits of that cell in the formula
    bv           \* to_bv(bv_num, bv_width), the signs of the weak assumptions

satvars ==
    <<sat_iter, main_pc, task_pc, sleepy_pc, script, ran, bv_num, bv_width, bv>>

\* cli[Args.SIMULATE], the number of traces asked for.
MaxSim == 2
\* The widths of the bit vectors considered.
MaxWidth == 4

RECURSIVE pow2(_)
pow2(n) == IF n = 0 THEN 1 ELSE 2 * pow2(n - 1)

\* The integers representable in two's complement on `width` bits.
representable(width) == (-pow2(width - 1)) .. (pow2(width - 1) - 1)

\* The loop of cbmc.py 326-329: the bits of num >= 0, least significant
\* first.
RECURSIVE binary_of(_)
binary_of(num) ==
    IF num = 0 THEN <<>> ELSE <<num % 2>> \o binary_of(num \div 2)

\* to_bv (cbmc.py 320-347).  For a negative num the loop of lines 333-339
\* compares the index x with 1, not the bit: the bits at indices 0 and 1
\* are kept and those from index 2 on are flipped.  A binary longer than
\* width is returned as it is.
to_bv(num, width) ==
    LET two_compl == num < 0
        binary == binary_of(IF two_compl THEN -num ELSE num)
        signed == IF two_compl
                  THEN [x \in DOMAIN binary |->
                            IF x - 1 > 1 THEN 1 - binary[x] ELSE binary[x]]
                  ELSE Append(binary, 0)
    IN  IF width > Len(signed)
        THEN signed \o [k \in 1..(width - Len(signed)) |-> signed[Len(signed)]]
        ELSE signed

\* cbmc.py 405-424 and 430: one iteration creates the wrapper `sleepy`,
\* executable, and the empty file script.name, submits the task and starts
\* the backend with the wrapper as its SAT solver.
Simulate_Submit ==
    /\ main_pc = "loop"
    /\ sat_iter < MaxSim
    /\ script' = [content |-> "empty", x |-> FALSE]
    /\ task_pc' = "submitted"
    /\ sleepy_pc' = "none"
    /\ main_pc' = "run"
    /\ UNCHANGED <<sat_iter, ran, bv_num, bv_width, bv>>

\* cbmc.py 405 and 449: the loop is over.
Simulate_Done ==
    /\ main_pc = "loop"
    /\ sat_iter = MaxSim
    /\ main_pc' = "done"
    /\ UNCHANGED <<sat_iter, task_pc, sleepy_pc, script, ran, bv_num, bv_width,
                   bv>>

\* The backend calls its external SAT solver, the wrapper.
Backend_CallsSolver ==
    /\ main_pc = "run"
    /\ sleepy_pc = "none"
    /\ sleepy_pc' = "poll"
    /\ UNCHANGED <<sat_iter, main_pc, task_pc, script, ran, bv_num, bv_width,
                   bv>>

\* The wrapper (cbmc.py 416-420): while [ ! -x script ]; do sleep 1; done
Sleepy_Poll ==
    /\ sleepy_pc = "poll"
    /\ script.x
    /\ sleepy_pc' = "exec"
    /\ UNCHANGED <<sat_iter, main_pc, task_pc, script, ran, bv_num, bv_width,
                   bv>>

\* The wrapper runs the script.
Sleepy_Exec ==
    /\ sleepy_pc = "exec"
    /\ ran' = Append(ran, script.content)
    /\ sleepy_pc' = "done"
    /\ UNCHANGED <<sat_iter, main_pc, task_pc, script, bv_num, bv_width, bv>>

\* run(cmd) returns when the backend, whose solver has answered, exits
\* (cbmc.py 430-447).
Backend_Exit ==
    /\ main_pc = "run"
    /\ sleepy_pc = "done"
    /\ sat_iter' = sat_iter + 1
    /\ main_pc' = "loop"
    /\ UNCHANGED <<task_pc, sleepy_pc, script, ran, bv_num, bv_width, bv>>

\* sat_level_concretization up to the call of minisat_incantation (cbmc.py
\* 349-392): get_concretization returns a model, whose value for a cell is
\* turned into bits, or it raises (SliverError when no concretization is
\* left), as get_dimacs_mapping does when its backend call fails; the
\* exception stays in the Future, which nobody reads.
Task_Concretize ==
    /\ task_pc = "submitted"
    /\ \/ /\ task_pc' = "failed"
          /\ UNCHANGED <<bv_num, bv_width, bv>>
       \/ \E w \in 1..MaxWidth : \E n \in representable(w) :
            /\ bv_num' = n
            /\ bv_width' = w
            /\ bv' = to_bv(n, w)
            /\ task_pc' = "weaks"
    /\ UNCHANGED <<sat_iter, main_pc, sleepy_pc, script, ran>>

\* minisat_incantation, cbmc.py 313-314: the script is written and closed.
Task_Write ==
    /\ task_pc = "weaks"
    /\ script' = [script EXCEPT !.content = "written"]
    /\ task_pc' = "written"
    /\ UNCHANGED <<sat_iter, main_pc, sleepy_pc, ran, bv_num, bv_width, bv>>

\* minisat_incantation, cbmc.py 315-316: _set_executable.
Task_SetExecutable ==
    /\ task_pc = "written"
    /\ script' = [script EXCEPT !.x = TRUE]
    /\ task_pc' = "done"
    /\ UNCHANGED <<sat_iter, main_pc, sleepy_pc, ran, bv_num, bv_width, bv>>

MainNext == Simulate_Submit \/ Simulate_Done
BackendNext ==
    Backend_CallsSolver \/ Sleepy_Poll \/ Sleepy_Exec \/ Backend_Exit
TaskNext == Task_Concretize \/ Task_Write \/ Task_SetExecutable

\* The integer a list of bits, least significant first, stands for.
RECURSIVE bv_value(_)
bv_value(bits) ==
    IF bits = <<>> THEN 0 ELSE Head(bits) + 2 * bv_value(Tail(bits))

\* C25 as stated: for n representable in width bits, to_bv(n, width) has
\* exactly width bits and the sum of bit_i * 2^i is congruent to n modulo
\* 2^width.
C25_TwosComplement ==
    task_pc \in {"weaks", "written", "done"} =>
        /\ Len(bv) = bv_width
        /\ (bv_value(bv) - bv_num) % pow2(bv_width) = 0

\* C29 as stated: the wrapper is executable only once its content has been
\* written, and in every iteration the script the backend's solver call
\* polls for eventually becomes executable.
C29_WrapperRuns ==
    /\ [](script.x => script.content = "written")
    /\ [](ran \in Seq({"written"}))
    /\ (sleepy_pc = "poll") ~> script.x

(***************************************************************************)
(* Specifications.                                                         *)
(***************************************************************************)
\* The variables of the trace translators and of the other pure parts.
xvars == <<tvars, cavars, dovars, qvars, depvars, inivars, satvars>>

vars == <<dvars, cvars, vavars, xvars>>

\* The driver is not running.
IdleDriver ==
    /\ backend_arg = "cbmc"
    /\ simulate = 0
    /\ show = FALSE
    /\ translate_cex = FALSE
    /\ keep_files = FALSE
    /\ no_properties = FALSE
    /\ timeout = "off"
    /\ installed = TRUE
    /\ produced = FALSE
    /\ status = "None"
    /\ exc = "none"
    /\ exitcode = -1
    /\ temp_files = {}
    /\ disk = {}
    /\ cleanups = 0
    /\ ret = NotRun
    /\ sim_i = 0
    /\ sim_xfail = {}
    /\ sim_fault = FALSE

\* Concretizer.__init__ (concretizer.py 113-133).
NewConcretizer ==
    /\ picks = {}
    /\ softs = {}
    /\ past_models = {}
    /\ s_base = {}
    /\ s_scopes = 0
    /\ outcome = "none"
    /\ checks = 0
    /\ nsofts = 0
    /\ hard_sat = FALSE
    /\ n_ok = 0
    /\ ncalls = 0
    /\ seeded = FALSE
    /\ stray_draws = FALSE
    /\ prog_sched = <<>>

\* No concretizer is in use.
IdleConc ==
    /\ info = System(<<Kind("A", 0, 1, {})>>, {}, {}, 0, {})
    /\ fair = FALSE
    /\ NewConcretizer

\* No analysis is in use.
IdleVA ==
    /\ prog = Program(1, [v \in {"x"} |-> Var("i", 0, 0)],
                      <<Assign(1, "x", Literal(0))>>,
                      Assign(9, "x", Literal(0)))
    /\ va_pc = "idle"
    /\ va_err = "none"
    /\ ranges = make_init(prog, "Stripes")
    /\ fix = FALSE
    /\ wont_change = {}
    /\ s_analysis = make_init(prog, "Sign")
    /\ assumes = {}
    /\ visited = {}
    /\ conc \in initial_concrete(prog)

\* No trace is being translated.
IdleCex ==
    /\ cex = <<>>
    /\ zero_init = FALSE
    /\ prop = "__sliver_simulation__"
    /\ tr_pc = "idle"
    /\ tr_i = 1
    /\ tr_agent = ""
    /\ last_line = -1
    /\ tr_system = ""
    /\ out = <<>>

\* No CADP trace is being translated.
IdleCadp ==
    /\ lnt = <<>>
    /\ ca_pc = "idle"
    /\ ca_i = 1
    /\ ca_out = <<>>

\* No operator of the domains is being applied on its own.
IdleDom ==
    /\ st_a = S(0, 0)
    /\ st_b = S(0, 0)
    /\ st_op = ""
    /\ st_res = {}
    /\ st_halves = <<>>
    /\ st_err = "none"
    /\ st_pc = "idle"
    /\ sg_x = Sign(FALSE, FALSE, TRUE)
    /\ sg_y = Sign(FALSE, FALSE, TRUE)
    /\ sg_res = Sign(FALSE, FALSE, TRUE)

\* No formula is being rewritten.
IdleAtlas ==
    /\ q_formula = AstLiteral("", 0)
    /\ q_quant = "forall"
    /\ q_lo = 0
    /\ q_hi = 1
    /\ q_res = AstLiteral("", 0)
    /\ q_err = "none"
    /\ q_pc = "idle"

\* No dependency analysis runs on its own.
IdleDep ==
    /\ dep_asgns = <<>>
    /\ dep_res = [v \in {"id"} |-> {}]
    /\ dep_pc = "idle"

\* No inits fragment is being formatted.
IdleInits ==
    /\ ini_decl = [I |-> <<>>, L |-> <<>>, E |-> <<>>]
    /\ ini_model = <<>>
    /\ ini_cells = [I |-> <<>>, L |-> <<>>, E |-> <<>>]
    /\ ini_out = <<>>
    /\ ini_pc = "idle"

\* No simulation runs at SAT level.
IdleSim ==
    /\ sat_iter = 0
    /\ main_pc = "idle"
    /\ task_pc = "none"
    /\ sleepy_pc = "none"
    /\ script = [content |-> "empty", x |-> FALSE]
    /\ ran = <<>>
    /\ bv_num = 0
    /\ bv_width = 1
    /\ bv = <<0>>

IdleX == IdleCex /\ IdleCadp /\ IdleDom /\ IdleAtlas /\ IdleDep /\ IdleInits /\ IdleSim

Init_Driver ==
    /\ InitDriver
    /\ IdleConc
    /\ IdleVA
    /\ IdleX

NextDriver ==
    \/ Main_Encode /\ UNCHANGED <<cvars, vavars, xvars>>
    \/ Main_GetInfo /\ UNCHANGED <<cvars, vavars, xvars>>
    \/ Main_TranslateCex /\ UNCHANGED <<cvars, vavars, xvars>>
    \/ Main_Verify /\ UNCHANGED <<cvars, vavars, xvars>>
    \/ Simulate_Start /\ UNCHANGED <<cvars, vavars, xvars>>
    \/ Simulate_Iter /\ UNCHANGED <<cvars, vavars, xvars>>
    \/ Simulate_Return /\ UNCHANGED <<cvars, vavars, xvars>>
    \/ Main_Finally /\ UNCHANGED <<cvars, vavars, xvars>>

SpecDriver == Init_Driver /\ [][NextDriver]_vars

InitConc ==
    /\ pc = "concretizer"
    /\ steps \in 1..MaxSteps
    /\ concretization \in {"src", "sat", "none"}
    /\ \E su \in Setups : info = su.info /\ fair = su.fair
    /\ NewConcretizer
    /\ IdleDriver
    /\ IdleVA
    /\ IdleX

NextConc ==
    \/ concretize_program /\ UNCHANGED <<steps, concretization, pc>>
                          /\ UNCHANGED <<backend_arg, simulate, show,
                                translate_cex, keep_files, no_properties,
                                timeout, installed, produced, status, exc,
                                exitcode, temp_files, disk, cleanups, ret,
                                sim_i, sim_xfail, sim_fault>>
                          /\ UNCHANGED <<vavars, xvars>>
    \/ sat_level_concretization
                          /\ UNCHANGED <<steps, concretization, pc>>
                          /\ UNCHANGED <<backend_arg, simulate, show,
                                translate_cex, keep_files, no_properties,
                                timeout, installed, produced, status, exc,
                                exitcode, temp_files, disk, cleanups, ret,
                                sim_i, sim_xfail, sim_fault>>
                          /\ UNCHANGED <<vavars, xvars>>

SpecConc == InitConc /\ [][NextConc]_vars

InitVA ==
    /\ pc = "analysis"
    /\ steps = 0
    /\ concretization = "none"
    /\ IdleDriver
    /\ IdleConc
    /\ prog \in Systems
    /\ va_pc = "new"
    /\ va_err = "none"
    /\ ranges = make_init(prog, "Stripes")
    /\ fix = FALSE
    /\ wont_change = {}
    /\ s_analysis = make_init(prog, "Sign")
    /\ assumes = {}
    /\ visited = {}
    /\ conc \in initial_concrete(prog)
    /\ IdleX

NextVA ==
    \/ Esbmc_preprocess /\ UNCHANGED <<dvars, cvars, xvars>>
    \/ CadpCompositional_preprocess /\ UNCHANGED <<dvars, cvars, xvars>>
    \/ AgentStep /\ UNCHANGED <<dvars, cvars, xvars>>

SpecVA == InitVA /\ [][NextVA]_vars

\* The traces of length 1..MaxCex.
RECURSIVE seqs_upto(_, _)
seqs_upto(alphabet, n) ==
    IF n = 0 THEN {<<>>}
    ELSE LET shorter == seqs_upto(alphabet, n - 1)
         IN  shorter \cup {Append(t, x) : t \in shorter, x \in alphabet}

InitCex ==
    /\ pc = "translate_cex"
    /\ steps = 0
    /\ concretization = "none"
    /\ IdleDriver
    /\ IdleConc
    /\ IdleVA
    /\ cex \in seqs_upto(CexStates, MaxCex) \ {<<>>}
    /\ zero_init \in BOOLEAN
    /\ prop \in {"__sliver_simulation__", "p"}
    /\ tr_pc = "start"
    /\ tr_i = 1
    /\ tr_agent = ""
    /\ last_line = -1
    /\ tr_system = ""
    /\ out = <<>>
    /\ IdleCadp
    /\ IdleDom
    /\ IdleAtlas
    /\ IdleDep
    /\ IdleInits
    /\ IdleSim

NextCex ==
    \/ Translate_Start /\ UNCHANGED <<dvars, cvars, vavars, cavars, dovars, qvars, depvars, inivars, satvars>>
    \/ Translate_State /\ UNCHANGED <<dvars, cvars, vavars, cavars, dovars, qvars, depvars, inivars, satvars>>
    \/ Translate_Exhausted /\ UNCHANGED <<dvars, cvars, vavars, cavars, dovars, qvars, depvars, inivars, satvars>>
    \/ Translate_End /\ UNCHANGED <<dvars, cvars, vavars, cavars, dovars, qvars, depvars, inivars, satvars>>

SpecCex == InitCex /\ [][NextCex]_vars

\* The traces CADP prints: <initial state>, up to MaxLnt lines, and the
\* line that ends the trace.
InitCadp ==
    /\ pc = "translate_cex"
    /\ steps = 0
    /\ concretization = "none"
    /\ IdleDriver
    /\ IdleConc
    /\ IdleVA
    /\ IdleCex
    /\ \E body \in seqs_upto(LntLines, MaxLnt) :
        \E last \in {"<goal state>", "<deadlock>"} :
            lnt = <<LntLine(FALSE, <<"<initial state>">>)>> \o body
                    \o <<LntLine(FALSE, <<last>>)>>
    /\ ca_pc = "start"
    /\ ca_i = 1
    /\ ca_out = <<>>
    /\ IdleDom
    /\ IdleAtlas
    /\ IdleDep
    /\ IdleInits
    /\ IdleSim

NextCadp ==
    \/ Cadp_Start /\ UNCHANGED <<dvars, cvars, vavars, tvars, dovars, qvars, depvars, inivars, satvars>>
    \/ Cadp_Line /\ UNCHANGED <<dvars, cvars, vavars, tvars, dovars, qvars, depvars, inivars, satvars>>
    \/ Cadp_Return /\ UNCHANGED <<dvars, cvars, vavars, tvars, dovars, qvars, depvars, inivars, satvars>>

SpecCadp == InitCadp /\ [][NextCadp]_vars

\* The signs: every Sign with at least one flag.
Signs ==
    {sg \in [minus : BOOLEAN, plus : BOOLEAN, zero : BOOLEAN] :
        sg.minus \/ sg.plus \/ sg.zero}

\* Two Stripes, or two Sign values.
InitDom ==
    /\ pc = "analysis"
    /\ steps = 0
    /\ concretization = "none"
    /\ IdleDriver
    /\ IdleConc
    /\ IdleVA
    /\ IdleCex
    /\ IdleCadp
    /\ IdleAtlas
    /\ IdleDep
    /\ st_op = ""
    /\ st_res = {}
    /\ st_halves = <<>>
    /\ st_err = "none"
    /\ sg_res = Sign(FALSE, FALSE, TRUE)
    /\ \/ /\ st_pc = "new"
          /\ st_a \in ValidStripes(-MaxStripe, MaxStripe)
          /\ st_b \in ValidStripes(-1, 1)
          /\ sg_x = Sign(FALSE, FALSE, TRUE)
          /\ sg_y = Sign(FALSE, FALSE, TRUE)
       \/ /\ st_pc = "new_sign"
          /\ st_a = S(0, 0)
          /\ st_b = S(0, 0)
          /\ sg_x \in Signs
          /\ sg_y \in Signs
    /\ IdleInits
    /\ IdleSim

NextDom ==
    \/ Stripes_operator /\ UNCHANGED <<dvars, cvars, vavars, tvars, cavars, qvars, depvars, inivars, satvars>>
    \/ Stripes_bisect_call /\ UNCHANGED <<dvars, cvars, vavars, tvars, cavars, qvars, depvars, inivars, satvars>>
    \/ Sign_add_call /\ UNCHANGED <<dvars, cvars, vavars, tvars, cavars, qvars, depvars, inivars, satvars>>

SpecDom == InitDom /\ [][NextDom]_vars

\* The references and literals a body is made of.
AstAtoms ==
    {AstRef(name, of) : name \in {"id", "val"}, of \in {"x", "y", ""}}
    \cup {AstLiteral("", 0)}

\* Bodies: an atom, a comparison of two atoms, or the conjunction of a
\* comparison with `val of x`.
AstBodies ==
    LET comparisons == {AstExpr(">", <<a, b>>) : a \in AstAtoms, b \in AstAtoms}
    IN  AstAtoms \cup comparisons
        \cup {AstExpr("and", <<c, AstRef("val", "x")>>) : c \in comparisons}

InitAtlas ==
    /\ pc = "analysis"
    /\ steps = 0
    /\ concretization = "none"
    /\ IdleDriver
    /\ IdleConc
    /\ IdleVA
    /\ IdleCex
    /\ IdleCadp
    /\ IdleDom
    /\ IdleDep
    /\ q_formula \in AstBodies
    /\ q_quant \in {"forall", "exists"}
    /\ q_lo \in 0..1
    /\ q_hi \in (q_lo + 1)..(q_lo + MaxAgents)
    /\ q_res = AstLiteral("", 0)
    /\ q_err = "none"
    /\ q_pc = "new"
    /\ IdleInits
    /\ IdleSim

NextAtlas ==
    \/ Remove_quant /\ UNCHANGED <<dvars, cvars, vavars, tvars, cavars, dovars, depvars, inivars, satvars>>

SpecAtlas == InitAtlas /\ [][NextAtlas]_vars

\* Assignments `v <- w` over four variables and id, in every order.
InitDep ==
    /\ pc = "analysis"
    /\ steps = 0
    /\ concretization = "none"
    /\ IdleDriver
    /\ IdleConc
    /\ IdleVA
    /\ IdleCex
    /\ IdleCadp
    /\ IdleDom
    /\ IdleAtlas
    /\ dep_asgns \in seqs_upto({[lhs |-> v, names |-> {w}] :
                                    v \in {"a", "b", "c"},
                                    w \in {"a", "b", "c", "d", "id"}},
                                MaxAsgn) \ {<<>>}
    /\ dep_res = [v \in {"id"} |-> {}]
    /\ dep_pc = "new"
    /\ IdleInits
    /\ IdleSim

NextDep ==
    \/ Dependency_analysis
            /\ UNCHANGED <<dvars, cvars, vavars, tvars, cavars, dovars, qvars, inivars, satvars>>

SpecDep == InitDep /\ [][NextDep]_vars

\* The inits fragment on its own: one agent, up to MaxDecl scalars and
\* arrays of two cells in the interface and in the environment, at most one
\* stigmergic scalar, and every model with values 0 and 1.
InitInits ==
    /\ pc = "inits"
    /\ steps = 0
    /\ concretization = "src"
    /\ IdleDriver
    /\ IdleConc
    /\ IdleVA
    /\ IdleCex
    /\ IdleCadp
    /\ IdleDom
    /\ IdleAtlas
    /\ IdleDep
    /\ ini_decl \in [I : seqs_upto({1, 2}, MaxDecl), L : seqs_upto({1}, 1),
                     E : seqs_upto({1, 2}, MaxDecl)]
    /\ ini_model \in [all_cells(ini_decl) -> {0, 1}]
    /\ ini_cells = [I |-> <<>>, L |-> <<>>, E |-> <<>>]
    /\ ini_out = <<>>
    /\ ini_pc = "new"
    /\ IdleSim

NextInits ==
    \/ Inits_Setup /\ UNCHANGED <<dvars, cvars, vavars, tvars, cavars, dovars, qvars, depvars, satvars>>
    \/ Inits_Format /\ UNCHANGED <<dvars, cvars, vavars, tvars, cavars, dovars, qvars, depvars, satvars>>

SpecInits == InitInits /\ [][NextInits]_vars

\* SAT-level simulation on its own.
InitSim ==
    /\ pc = "simulate"
    /\ steps = 0
    /\ concretization = "sat"
    /\ IdleDriver
    /\ IdleConc
    /\ IdleVA
    /\ IdleCex
    /\ IdleCadp
    /\ IdleDom
    /\ IdleAtlas
    /\ IdleDep
    /\ IdleInits
    /\ sat_iter = 0
    /\ main_pc = "loop"
    /\ task_pc = "none"
    /\ sleepy_pc = "none"
    /\ script = [content |-> "empty", x |-> FALSE]
    /\ ran = <<>>
    /\ bv_num = 0
    /\ bv_width = 1
    /\ bv = <<0>>

SimMain ==
    MainNext /\ UNCHANGED <<dvars, cvars, vavars, tvars, cavars, dovars, qvars, depvars, inivars>>
SimBackend ==
    BackendNext /\ UNCHANGED <<dvars, cvars, vavars, tvars, cavars, dovars, qvars, depvars, inivars>>
SimTask ==
    TaskNext /\ UNCHANGED <<dvars, cvars, vavars, tvars, cavars, dovars, qvars, depvars, inivars>>

NextSim == SimMain \/ SimBackend \/ SimTask

SpecSim == InitSim /\ [][NextSim]_vars

\* The thread pool runs a submitted task, the backend and the wrapper are
\* processes of the operating system, and the main thread goes on when
\* run(cmd) returns: each of the three takes the steps it can take.
SpecSimFair ==
    /\ SpecSim
    /\ WF_vars(SimMain)
    /\ WF_vars(SimBackend)
    /\ WF_vars(SimTask)

====
